---------------------------- MODULE Spec2Model ----------------------------
(***************************************************************************)
(* Audit-integrity helpers of archonri-brain: HMAC signing / verification  *)
(* of audit payloads (lib/signAudit.js) and PII redaction                  *)
(* (lib/redactPII.js).                                                     *)
(*                                                                         *)
(* Text is a sequence of one-character strings; a JavaScript value is a    *)
(* tagged record; objects keep their entries in insertion order.           *)
(***************************************************************************)
EXTENDS Integers, Sequences, FiniteSets, TLC

(***************************************************************************)
(* Characters                                                              *)
(***************************************************************************)

\* The printable ASCII characters, code 32 .. 126, in code order (the entry
\* of code 96, the grave accent, is a placeholder no text holds).
Printable ==
  << " ", "!", "\"", "#", "$", "%", "&", "'", "(", ")", "*", "+", ",", "-",
     ".", "/", "0", "1", "2", "3", "4", "5", "6", "7", "8", "9", ":", ";",
     "<", "=", ">", "?", "@", "A", "B", "C", "D", "E", "F", "G", "H", "I",
     "J", "K", "L", "M", "N", "O", "P", "Q", "R", "S", "T", "U", "V", "W",
     "X", "Y", "Z", "[", "\\", "]", "^", "_", "grave", "a", "b", "c", "d", "e",
     "f", "g", "h", "i", "j", "k", "l", "m", "n", "o", "p", "q", "r", "s",
     "t", "u", "v", "w", "x", "y", "z", "{", "|", "}", "~" >>

CharCodes ==
  [c \in {Printable[i] : i \in 1..Len(Printable)} |->
     31 + (CHOOSE i \in 1..Len(Printable) : Printable[i] = c)]

\* UTF-16 code unit of a character
CharCode(c) == CharCodes[c]

CharOf(code) == Printable[code - 31]

\* String.prototype.toLowerCase, one character
LowerChar(c) ==
  LET code == CharCode(c)
  IN  IF code >= 65 /\ code <= 90 THEN CharOf(code + 32) ELSE c

\* String.prototype.toLowerCase
toLowerCase(s) == [i \in 1..Len(s) |-> LowerChar(s[i])]

\* String.prototype.includes: sub occurs in s as a contiguous substring
includes(s, sub) ==
  \E i \in 0..(Len(s) - Len(sub)) :
    \A j \in 1..Len(sub) : s[i + j] = sub[j]

\* Comparison of two strings by code units (the default order of
\* Array.prototype.sort): TRUE iff a sorts strictly before b.
RECURSIVE StringLess(_, _)
StringLess(a, b) ==
  IF b = <<>> THEN FALSE
  ELSE IF a = <<>> THEN TRUE
  ELSE IF CharCode(Head(a)) # CharCode(Head(b))
       THEN CharCode(Head(a)) < CharCode(Head(b))
  ELSE StringLess(Tail(a), Tail(b))

(***************************************************************************)
(* JavaScript values                                                       *)
(***************************************************************************)

Undefined == [t |-> "undefined"]
Null      == [t |-> "null"]
Bool(b)   == [t |-> "boolean", b |-> b]
Num(n)    == [t |-> "number", n |-> n]
Str(s)    == [t |-> "string", s |-> s]
\* an object: its own enumerable entries <<key, value>> in insertion order
Obj(e)    == [t |-> "object", e |-> e]
Arr(a)    == [t |-> "array", a |-> a]

\* ToBoolean
Truthy(v) ==
  CASE v.t = "undefined" -> FALSE
    [] v.t = "null"      -> FALSE
    [] v.t = "boolean"   -> v.b
    [] v.t = "number"    -> v.n # 0
    [] v.t = "string"    -> v.s # <<>>
    [] OTHER             -> TRUE

\* a || b
OrElse(a, b) == IF Truthy(a) THEN a ELSE b

\* how a call ended: it threw an error, or it returned a value
Threw(msg)  == [threw |-> TRUE, error |-> msg]
Returned(v) == [threw |-> FALSE, value |-> v]

\* Object.keys of an object: its keys in insertion order
ObjectKeys(v) == [i \in 1..Len(v.e) |-> v.e[i][1]]

HasKey(v, k) == \E i \in 1..Len(v.e) : v.e[i][1] = k

\* obj[k] for a key the object holds
GetKey(v, k) == v.e[CHOOSE i \in 1..Len(v.e) : v.e[i][1] = k][2]

\* Array.prototype.sort with the default comparator, by insertion
RECURSIVE InsertSorted(_, _)
InsertSorted(k, sorted) ==
  IF sorted = <<>> THEN <<k>>
  ELSE IF StringLess(k, Head(sorted)) THEN <<k>> \o sorted
  ELSE <<Head(sorted)>> \o InsertSorted(k, Tail(sorted))

RECURSIVE sort(_)
sort(keys) ==
  IF keys = <<>> THEN <<>>
  ELSE InsertSorted(Head(keys), sort(Tail(keys)))

(***************************************************************************)
(* JSON.stringify                                                          *)
(***************************************************************************)

Digit(d) == CharOf(48 + d)

\* Number::toString of an integer
RECURSIVE NatToString(_)
NatToString(n) ==
  IF n < 10 THEN <<Digit(n)>>
  ELSE NatToString(n \div 10) \o <<Digit(n % 10)>>

NumberToString(n) == IF n < 0 THEN <<"-">> \o NatToString(-n) ELSE NatToString(n)

\* String(v) of JavaScript, as String() and template literals apply it:
\* an array joins its elements with commas, null and undefined elements as
\* empty texts; an object is '[object Object]'
RECURSIVE String(_)
RECURSIVE JoinItems(_, _)
JoinItems(items, i) ==
  IF i > Len(items) THEN <<>>
  ELSE (IF items[i].t \in {"null", "undefined"} THEN <<>> ELSE String(items[i]))
       \o (IF i < Len(items) THEN <<",">> ELSE <<>>)
       \o JoinItems(items, i + 1)

String(v) ==
  CASE v.t = "undefined" -> <<"u", "n", "d", "e", "f", "i", "n", "e", "d">>
    [] v.t = "null"      -> <<"n", "u", "l", "l">>
    [] v.t = "boolean"   -> IF v.b THEN <<"t", "r", "u", "e">>
                            ELSE <<"f", "a", "l", "s", "e">>
    [] v.t = "number"    -> NumberToString(v.n)
    [] v.t = "string"    -> v.s
    [] v.t = "array"     -> JoinItems(v.a, 1)
    [] v.t = "object"    -> <<"[", "o", "b", "j", "e", "c", "t", " ", "O", "b", "j", "e",
                              "c", "t", "]">>
    [] v.t = "object"    -> <<"[", "o", "b", "j", "e", "c", "t", " ",
                              "O", "b", "j", "e", "c", "t", "]">>

\* QuoteJSONString: the text between double quotes, " and \ escaped
\* (character by character; the text is taken by halves)
RECURSIVE EscapeChars(_)
EscapeChars(s) ==
  IF s = <<>> THEN <<>>
  ELSE IF Len(s) = 1
  THEN IF s[1] = "\"" \/ s[1] = "\\" THEN <<"\\", s[1]>> ELSE s
  ELSE EscapeChars(SubSeq(s, 1, Len(s) \div 2))
       \o EscapeChars(SubSeq(s, (Len(s) \div 2) + 1, Len(s)))

QuoteJSONString(s) == <<"\"">> \o EscapeChars(s) \o <<"\"">>

\* No replacer given: every own key of every object is serialized.
NoReplacer == << <<"no replacer">> >>

\* The keys of object v that are serialized, in serialization order: with an
\* array replacer (a PropertyList) the list's keys that the object holds, in
\* list order; otherwise the object's own keys.
RECURSIVE ListedKeys(_, _)
ListedKeys(v, list) ==
  IF list = <<>> THEN <<>>
  ELSE (IF HasKey(v, Head(list)) THEN <<Head(list)>> ELSE <<>>)
       \o ListedKeys(v, Tail(list))

SerializedKeys(v, plist) ==
  IF plist = NoReplacer THEN ObjectKeys(v) ELSE ListedKeys(v, plist)

RECURSIVE SerializeJSONProperty(_, _)
RECURSIVE SerializeJSONObject(_, _, _)
RECURSIVE SerializeJSONArray(_, _, _)

\* the members "key":value of v for the keys ks, comma separated
SerializeJSONObject(v, ks, plist) ==
  IF ks = <<>> THEN <<>>
  ELSE QuoteJSONString(Head(ks)) \o <<":">>
       \o SerializeJSONProperty(GetKey(v, Head(ks)), plist)
       \o (IF Len(ks) > 1 THEN <<",">> ELSE <<>>)
       \o SerializeJSONObject(v, Tail(ks), plist)

SerializeJSONArray(items, i, plist) ==
  IF i > Len(items) THEN <<>>
  ELSE SerializeJSONProperty(items[i], plist)
       \o (IF i < Len(items) THEN <<",">> ELSE <<>>)
       \o SerializeJSONArray(items, i + 1, plist)

SerializeJSONProperty(v, plist) ==
  CASE v.t = "null"    -> <<"n", "u", "l", "l">>
    [] v.t = "boolean" -> IF v.b THEN <<"t", "r", "u", "e">>
                          ELSE <<"f", "a", "l", "s", "e">>
    [] v.t = "number"  -> NumberToString(v.n)
    [] v.t = "string"  -> QuoteJSONString(v.s)
    [] v.t = "array"   -> <<"[">> \o SerializeJSONArray(v.a, 1, plist) \o <<"]">>
    [] v.t = "object"  -> <<"{">>
                          \o SerializeJSONObject(v, SerializedKeys(v, plist), plist)
                          \o <<"}">>

\* JSON.stringify(value) and JSON.stringify(value, replacerArray) of a
\* JSON-like value. The replacer array is the PropertyList of every object
\* of the value, nested ones included.
JSONstringify(v, plist) == SerializeJSONProperty(v, plist)

(***************************************************************************)
(* Bounds of the checked universe                                          *)
(***************************************************************************)

\* numbers that occur as field values are 1 .. MaxNum
MaxNum == 2

(***************************************************************************)
(* payloads and keys; digests, hex encoding, Buffer.from(_, 'hex')         *)
(***************************************************************************)

\* bytes of a SHA-256 digest
DigestLen == 32

a_ == <<"a">>
b_ == <<"b">>
x_ == <<"x">>

\* the keys that occur as signing keys
Key1 == <<"k", "1">>
Key2 == <<"k", "2">>
KeyTexts == {Key1, Key2}

\* the values a field of a payload holds
FieldNums == {Num(n) : n \in 1..MaxNum}
EndNums == {Num(1), Num(MaxNum)}
InnerObjects ==
  {Obj(<< <<x_, v>> >>) : v \in FieldNums}
  \cup {Obj(<< <<a_, Num(1)>>, <<b_, Num(MaxNum)>> >>),
        Obj(<< <<b_, Num(MaxNum)>>, <<a_, Num(1)>> >>)}
FieldValues == FieldNums \cup InnerObjects \cup {Arr(<<Num(1), Num(MaxNum)>>)}

\* object payloads: one entry, or the two keys a and b in either order
ObjectPayloads ==
  {Obj(<< <<a_, v>> >>) : v \in FieldValues}
  \cup {Obj(<< <<b_, v>> >>) : v \in FieldNums}
  \cup {Obj(<< <<a_, v>>, <<b_, w>> >>) : v \in FieldValues, w \in EndNums}
  \cup {Obj(<< <<b_, w>>, <<a_, v>> >>) : v \in FieldValues, w \in EndNums}

\* text payloads
TextPayloads == {Str(<<"s">>), Str(<<"{", "}">>)}

Payloads == ObjectPayloads \cup TextPayloads

\* n as len bytes, least significant byte first
RECURSIVE ToBytes(_, _)
ToBytes(n, len) ==
  IF len = 0 THEN <<>> ELSE <<n % 256>> \o ToBytes(n \div 256, len - 1)

HexDigits == <<"0", "1", "2", "3", "4", "5", "6", "7", "8", "9",
               "a", "b", "c", "d", "e", "f">>

\* digest('hex'): two lower-case hex characters per byte
RECURSIVE HexEncode(_)
HexEncode(bytes) ==
  IF bytes = <<>> THEN <<>>
  ELSE <<HexDigits[(Head(bytes) \div 16) + 1], HexDigits[(Head(bytes) % 16) + 1]>>
       \o HexEncode(Tail(bytes))

\* value of a hex character, -1 for any other character
unhex(c) ==
  LET code == CharCode(c)
  IN  IF code >= 48 /\ code <= 57 THEN code - 48
      ELSE IF code >= 97 /\ code <= 102 THEN code - 87
      ELSE IF code >= 65 /\ code <= 70 THEN code - 55
      ELSE -1

\* Buffer.from(s, 'hex'): the bytes of the leading pairs of hex characters;
\* decoding stops at the first pair that holds another character, and a
\* trailing single character is dropped.
RECURSIVE BufferFromHex(_)
BufferFromHex(s) ==
  IF Len(s) < 2 THEN <<>>
  ELSE IF unhex(s[1]) = -1 \/ unhex(s[2]) = -1 THEN <<>>
  ELSE <<unhex(s[1]) * 16 + unhex(s[2])>> \o BufferFromHex(SubSeq(s, 3, Len(s)))

(***************************************************************************)
(* staging/harness.js: the test data of a trial                            *)
(***************************************************************************)

\* trials of a harness run (config.testCount is 0 .. MaxTests)
MaxTests == 3

\* failures (a store write, the screening call, the applicant generator)
\* that happen in one harness run
MaxFaults == 2

\* generateCorrelationId(): `corr-${Date.now()}-${hex}`. The clock advances
\* between two trials (they are 200 ms apart), so the ids of a run differ;
\* the id of trial `index` is written 'corr-<index>'.
generateCorrelationId(index) == <<"c", "o", "r", "r", "-">> \o NatToString(index)

k_name            == <<"n", "a", "m", "e">>
k_company         == <<"c", "o", "m", "p", "a", "n", "y">>
k_revenue         == <<"r", "e", "v", "e", "n", "u", "e">>
k_risk_indicators ==
  <<"r", "i", "s", "k", "_", "i", "n", "d", "i", "c", "a", "t", "o", "r", "s">>
k_correlation_id == <<"c", "o", "r", "r", "e", "l", "a", "t", "i", "o", "n", "_", "i", "d">>

\* Math.floor(Math.random() * 1000000) + 100000: an integer of
\* 100000 .. 1099999. No step of the flow reads the revenue but the
\* serialization of the applicant; the draw of trial `index` is written
\* 100000 + index.
RandomRevenue(index) == 100000 + index

\* generateTestApplicant(index)
generateTestApplicant(index) ==
  Obj(<< <<k_name, Str(<<"T", "e", "s", "t", " ", "A", "p", "p", "l", "i", "c", "a",
                         "n", "t", " ">> \o NatToString(index))>>,
         <<<<"e", "m", "a", "i", "l">>,
           Str(<<"t", "e", "s", "t">> \o NatToString(index)
               \o <<"@", "e", "x", "a", "m", "p", "l", "e", ".", "c", "o", "m">>)>>,
         <<k_company, Str(<<"T", "e", "s", "t", " ", "C", "o", "m", "p", "a", "n", "y",
                            " ">> \o NatToString(index) \o <<" ", "L", "L", "C">>)>>,
         <<k_revenue, Num(RandomRevenue(index))>>,
         <<k_risk_indicators,
           IF index % 3 = 0
           THEN Arr(<<Str(<<"h", "i", "g", "h", "_", "v", "o", "l", "a", "t", "i", "l",
                            "i", "t", "y">>)>>)
           ELSE Arr(<<>>)>>,
         <<k_correlation_id, Str(generateCorrelationId(index))>> >>)
k_prompt_hash    == <<"p", "r", "o", "m", "p", "t", "_", "h", "a", "s", "h">>
k_input_summary  == <<"i", "n", "p", "u", "t", "_", "s", "u", "m", "m", "a", "r", "y">>
k_timestamp      == <<"t", "i", "m", "e", "s", "t", "a", "m", "p">>

\* new Date().toISOString() in trial `index`, written 't<index>'
Timestamp(index) == <<"t">> \o NatToString(index)

\* the fallback of config.hmacKey
StagingKey ==
  <<"s", "t", "a", "g", "i", "n", "g", "-", "t", "e", "s", "t", "-", "k", "e", "y", "-",
    "r", "e", "p", "l", "a", "c", "e", "-", "i", "n", "-", "p", "r", "o", "d">>

(***************************************************************************)
(* JSON.parse and the heap of objects                                      *)
(***************************************************************************)

IsDigit(c) == CharCode(c) >= 48 /\ CharCode(c) <= 57

RECURSIVE ParseChars(_, _, _)
RECURSIVE ParseDigits(_, _, _)
RECURSIVE ParseValue(_, _)
RECURSIVE ParseMembers(_, _, _)
RECURSIVE ParseElements(_, _, _)

\* the characters of a string literal from position i up to its closing
\* quote; v is the text, i the position after the quote
ParseChars(s, i, acc) ==
  IF s[i] = "\"" THEN [v |-> acc, i |-> i + 1]
  ELSE IF s[i] = "\\" THEN ParseChars(s, i + 2, Append(acc, s[i + 1]))
  ELSE ParseChars(s, i + 1, Append(acc, s[i]))

ParseDigits(s, i, n) ==
  IF i <= Len(s) /\ IsDigit(s[i])
  THEN ParseDigits(s, i + 1, n * 10 + (CharCode(s[i]) - 48))
  ELSE [v |-> n, i |-> i]

\* the members of an object from position i, after the members acc
ParseMembers(s, i, acc) ==
  LET key   == ParseChars(s, i + 1, <<>>)
      value == ParseValue(s, key.i + 1)
      es    == Append(acc, <<key.v, value.v>>)
  IN  IF s[value.i] = "," THEN ParseMembers(s, value.i + 1, es)
      ELSE [v |-> Obj(es), i |-> value.i + 1]

ParseElements(s, i, acc) ==
  LET value == ParseValue(s, i)
      items == Append(acc, value.v)
  IN  IF s[value.i] = "," THEN ParseElements(s, value.i + 1, items)
      ELSE [v |-> Arr(items), i |-> value.i + 1]

\* the JSON value that starts at position i of s
ParseValue(s, i) ==
  CASE s[i] = "{"  -> IF s[i + 1] = "}" THEN [v |-> Obj(<<>>), i |-> i + 2]
                      ELSE ParseMembers(s, i + 1, <<>>)
    [] s[i] = "["  -> IF s[i + 1] = "]" THEN [v |-> Arr(<<>>), i |-> i + 2]
                      ELSE ParseElements(s, i + 1, <<>>)
    [] s[i] = "\"" -> LET r == ParseChars(s, i + 1, <<>>)
                      IN  [v |-> Str(r.v), i |-> r.i]
    [] s[i] = "n"  -> [v |-> Null, i |-> i + 4]
    [] s[i] = "t"  -> [v |-> Bool(TRUE), i |-> i + 4]
    [] s[i] = "f"  -> [v |-> Bool(FALSE), i |-> i + 5]
    [] s[i] = "-"  -> LET r == ParseDigits(s, i + 1, 0)
                      IN  [v |-> Num(-r.v), i |-> r.i]
    [] OTHER       -> LET r == ParseDigits(s, i, 0)
                      IN  [v |-> Num(r.v), i |-> r.i]

\* The heap is the sequence of the objects and arrays created so far; an
\* object or array value is a reference to its place in the heap, and the
\* entries of a heap object hold primitives and references.
Ref(at) == [t |-> "ref", at |-> at]

RECURSIVE Deref(_, _)
\* the value v with every reference replaced by what it refers to
Deref(h, v) ==
  IF v.t # "ref" THEN v
  ELSE LET cell == h[v.at]
       IN  IF cell.t = "array"
           THEN Arr([i \in 1..Len(cell.a) |-> Deref(h, cell.a[i])])
           ELSE Obj([i \in 1..Len(cell.e) |->
                       <<cell.e[i][1], Deref(h, cell.e[i][2])>>])

RECURSIVE Allocate(_, _)
RECURSIVE AllocateEach(_, _, _)

\* new objects for the value `tree`: the heap after, and the value
Allocate(h, tree) ==
  IF tree.t = "object"
  THEN LET r == AllocateEach(h, [i \in 1..Len(tree.e) |-> tree.e[i][2]], <<>>)
           cell == Obj([i \in 1..Len(tree.e) |-> <<tree.e[i][1], r.vs[i]>>])
       IN  [h |-> Append(r.h, cell), v |-> Ref(Len(r.h) + 1)]
  ELSE IF tree.t = "array"
  THEN LET r == AllocateEach(h, tree.a, <<>>)
       IN  [h |-> Append(r.h, Arr(r.vs)), v |-> Ref(Len(r.h) + 1)]
  ELSE [h |-> h, v |-> tree]

AllocateEach(h, trees, acc) ==
  IF trees = <<>> THEN [h |-> h, vs |-> acc]
  ELSE LET r == Allocate(h, Head(trees))
       IN  AllocateEach(r.h, Tail(trees), Append(acc, r.v))

\* JSON.parse(text): the parsed value, built of new objects
JSONparse(h, text) == Allocate(h, ParseValue(text, 1).v)

\* JSON.parse(JSON.stringify(obj))
DeepClone(h, obj) == JSONparse(h, JSONstringify(Deref(h, obj), NoReplacer))

(***************************************************************************)
(* lib/redactPII.js                                                        *)
(***************************************************************************)

\* nesting depth of the values that are redacted
MaxDepth == 2

\* calls of redactPII on one input
MaxCalls == 2

DEFAULT_PII_FIELDS ==
  Arr(<< Str(<<"e", "m", "a", "i", "l">>),
         Str(<<"p", "h", "o", "n", "e">>),
         Str(<<"s", "s", "n">>),
         Str(<<"s", "o", "c", "i", "a", "l", "_", "s", "e", "c", "u", "r", "i", "t", "y">>),
         Str(<<"p", "a", "s", "s", "p", "o", "r", "t">>),
         Str(<<"d", "r", "i", "v", "e", "r", "_", "l", "i", "c", "e", "n", "s", "e">>),
         Str(<<"c", "r", "e", "d", "i", "t", "_", "c", "a", "r", "d">>),
         Str(<<"b", "a", "n", "k", "_", "a", "c", "c", "o", "u", "n", "t">>),
         Str(<<"d", "a", "t", "e", "_", "o", "f", "_", "b", "i", "r", "t", "h">>),
         Str(<<"d", "o", "b">>),
         Str(<<"a", "d", "d", "r", "e", "s", "s">>),
         Str(<<"i", "p", "_", "a", "d", "d", "r", "e", "s", "s">>) >>)

FIELDS_TO_REMOVE ==
  Arr(<< Str(<<"r", "a", "w", "_", "d", "o", "c", "u", "m", "e", "n", "t">>),
         Str(<<"f", "u", "l", "l", "_", "p", "a", "y", "l", "o", "a", "d">>),
         Str(<<"p", "a", "s", "s", "w", "o", "r", "d">>),
         Str(<<"s", "e", "c", "r", "e", "t">>),
         Str(<<"p", "r", "i", "v", "a", "t", "e", "_", "k", "e", "y">>),
         Str(<<"a", "p", "i", "_", "k", "e", "y">>),
         Str(<<"t", "o", "k", "e", "n">>) >>)

REDACTED == Str(<<"[", "R", "E", "D", "A", "C", "T", "E", "D", "]">>)

REDACTED_NON_STRING ==
  Str(<<"[", "R", "E", "D", "A", "C", "T", "E", "D", "_", "N", "O", "N", "_",
        "S", "T", "R", "I", "N", "G", "]">>)

\* the keys of the redacted objects
k_email       == <<"e", "m", "a", "i", "l">>
k_userEmail   == <<"u", "s", "e", "r", "E", "m", "a", "i", "l">>
k_password    == <<"p", "a", "s", "s", "w", "o", "r", "d">>
k_email_token == <<"e", "m", "a", "i", "l", "_", "t", "o", "k", "e", "n">>
k_note        == <<"n", "o", "t", "e">>
RedactKeys == {k_email, k_userEmail, k_password, k_email_token, k_note}

\* two keys more, each in a few inputs: the key that names the prototype of
\* an object, and a key that the one-level redactPII deletes
k_proto        == <<"_", "_", "p", "r", "o", "t", "o", "_", "_">>
k_raw_document == <<"r", "a", "w", "_", "d", "o", "c", "u", "m", "e", "n", "t">>

bob == <<"b", "o", "b">>

\* the primitive values of the redacted objects
Leaves == {Str(bob), Str(<<>>), Num(0), Num(7), Null, Bool(FALSE)}

RECURSIVE ValuesTo(_)
\* the values of nesting depth at most d
ValuesTo(d) ==
  IF d = 0 THEN Leaves
  ELSE LET inner == ValuesTo(d - 1)
       IN  Leaves
           \cup {Obj(<< <<k, v>> >>) : k \in RedactKeys, v \in inner}
           \cup {Arr(<<v>>) : v \in inner}

\* objects of two fields
TwoFields ==
  {Obj(<< <<k, v>>, <<l, w>> >>) :
     k \in RedactKeys, l \in RedactKeys \ {k_email_token, k_note},
     v \in ValuesTo(MaxDepth - 1), w \in {Str(bob), Num(0)}}

\* objects as JSON.parse builds them of a text with a "__proto__" member,
\* which becomes an own property; the value under it is a primitive
ProtoInputs ==
  {Obj(<< <<k_proto, v>> >>) : v \in {Num(7), Null}}
  \cup {Obj(<< <<k_email, Str(bob)>>, <<k_proto, Num(7)>> >>)}

RawInputs ==
  {Obj(<< <<k_raw_document, v>> >>) : v \in {Str(bob), Str(<<>>)}}
  \cup {Obj(<< <<k_raw_document, Num(7)>>, <<k_email, Str(bob)>> >>)}

RedactInputs ==
  ValuesTo(MaxDepth) \cup {o \in TwoFields : o.e[1][1] # o.e[2][1]}
  \cup ProtoInputs \cup RawInputs

\* the (fieldsToHash, fieldsToRemove) arguments; Undefined: argument omitted
Policies ==
  { <<Undefined, Undefined>>,
    <<Arr(<<Str(<<"E", "m", "a", "i", "l">>)>>), Arr(<<Str(<<"N", "o", "t", "e">>)>>)>>,
    <<Arr(<<Str(<<"m", "a", "i", "l">>), Str(<<"p", "a", "s", "s">>)>>),
      Arr(<<Str(<<"m", "a", "i", "l">>)>>)>>,
    <<Arr(<<>>), Arr(<<>>)>> }

\* The texts of field values that are ever hashed: the texts of the inputs,
\* the String() of the values that the one-level redactPII meets at a key,
\* and the String() of the fields of the applicants of the harness trials.
FieldTexts ==
  {bob, <<>>} \cup {String(v) : v \in ValuesTo(MaxDepth)}
  \cup UNION {{String(generateTestApplicant(index).e[i][2]) :
                 i \in 1..Len(generateTestApplicant(index).e)} :
              index \in 1..MaxTests}

\* a before b in the order of the texts: at the first place where they
\* differ, a has ended or has the smaller character
TextBefore(a, b) ==
  \E i \in 1..Len(b) :
    /\ \A j \in 1..(i - 1) : j <= Len(a) /\ a[j] = b[j]
    /\ i > Len(a) \/ CharCode(a[i]) < CharCode(b[i])

\* each text of a field value with its place among all of them
FieldOrder ==
  {<<t, Cardinality({u \in FieldTexts : TextBefore(u, t)}) + 1>> :
     t \in FieldTexts}

\* crypto.createHash('sha256').update(String(v)).digest() of a field value:
\* the digest by its place (the prompts, which hold such digests, have the
\* places after)
Sha256OfField(text) ==
  ToBytes((CHOOSE p \in FieldOrder : p[1] = text)[2], DigestLen)

(***************************************************************************)
(* staging/harness.js: redactPII and the prompt of a trial                 *)
(***************************************************************************)

\* const piiFields = ['email', 'phone', 'ssn', 'address', 'dob']
piiFields ==
  << <<"e", "m", "a", "i", "l">>, <<"p", "h", "o", "n", "e">>, <<"s", "s", "n">>,
     <<"a", "d", "d", "r", "e", "s", "s">>, <<"d", "o", "b">> >>

\* result[k] = value, for a result made by {}: a new own property, or the
\* new value of the property of that key; the key '__proto__' is the
\* accessor of Object.prototype and adds no own property
AssignMember(result, k, value) ==
  IF k = <<"_", "_", "p", "r", "o", "t", "o", "_", "_">> THEN result
  ELSE IF \E i \in 1..Len(result) : result[i][1] = k
  THEN [i \in 1..Len(result) |-> IF result[i][1] = k THEN <<k, value>> ELSE result[i]]
  ELSE Append(result, <<k, value>>)

RECURSIVE redact(_)
RECURSIVE RedactMembers(_, _)

\* for (const [k, v] of Object.entries(o)): a member whose lower-cased name
\* includes one of piiFields becomes `hash:${first 16 hex of sha256(String(v))}`
\* if v is truthy and stays v otherwise; any other member is redact(v)
RedactMembers(entries, result) ==
  IF entries = <<>> THEN result
  ELSE LET k == Head(entries)[1]
           v == Head(entries)[2]
           kLower == toLowerCase(k)
       IN  RedactMembers(Tail(entries),
             AssignMember(result, k,
               IF \E f \in 1..Len(piiFields) : includes(kLower, piiFields[f])
               THEN IF Truthy(v)
                    THEN Str(<<"h", "a", "s", "h", ":">>
                             \o SubSeq(HexEncode(Sha256OfField(String(v))), 1, 16))
                    ELSE v
               ELSE redact(v)))

\* redact(o) of redactPII: an array mapped, an object rebuilt member by
\* member, any other value itself
redact(o) ==
  IF o.t = "array" THEN Arr([i \in 1..Len(o.a) |-> redact(o.a[i])])
  ELSE IF o.t = "object" THEN Obj(RedactMembers(o.e, <<>>))
  ELSE o

\* redactPII(obj) of the harness: redact(JSON.parse(JSON.stringify(obj)))
RedactedApplicant(applicant) ==
  redact(ParseValue(JSONstringify(applicant, NoReplacer), 1).v)

\* generateTestPrompt(applicant): the template around the redacted applicant,
\* written 'Applicant: <JSON>'
generateTestPrompt(applicant) ==
  <<"A", "p", "p", "l", "i", "c", "a", "n", "t", ":", " ">>
  \o JSONstringify(RedactedApplicant(applicant), NoReplacer)

\* the prompts of the harness trials
PromptTexts ==
  {generateTestPrompt(generateTestApplicant(index)) : index \in 1..MaxTests}
  \ FieldTexts

\* every text that is ever hashed
Sha256Inputs == FieldTexts \cup PromptTexts

\* each text with its place among all of them: the texts of field values,
\* then the prompts
Sha256Order ==
  FieldOrder
  \cup {<<t, Cardinality(FieldTexts)
             + Cardinality({u \in PromptTexts : TextBefore(u, t)}) + 1>> :
          t \in PromptTexts}

\* crypto.createHash('sha256').update(text).digest(): a hash taken as
\* collision-free, i.e. an injection of the texts into the DigestLen-byte
\* strings.
Sha256(text) ==
  ToBytes((CHOOSE p \in Sha256Order : p[1] = text)[2], DigestLen)

\* list.some(f => keyLower.includes(f.toLowerCase()))
SomeIncluded(list, keyLower) ==
  \E i \in 1..Len(list.a) : includes(keyLower, toLowerCase(list.a[i].s))

\* HashToken with the whole digest, as hashValue builds it
HashToken_full(value) ==
  Str(<<"h", "a", "s", "h", ":">> \o HexEncode(Sha256(value)))

\* `hash:${hash.substring(0, 16)}...`
HashToken(value) ==
  Str(<<"h", "a", "s", "h", ":">>
      \o SubSeq(HexEncode(Sha256(value)), 1, 16)
      \o <<".", ".", ".">>)

RECURSIVE redactObject(_, _, _, _)
RECURSIVE RedactItems(_, _, _, _, _)
RECURSIVE RedactEntries(_, _, _, _, _)

\* RedactField testing fieldsToHash before fieldsToRemove
RedactField_hashFirst(h, key, value, fieldsToHash, fieldsToRemove) ==
  LET keyLower == toLowerCase(key)
  IN  IF SomeIncluded(fieldsToHash, keyLower)
      THEN IF Truthy(value) /\ value.t = "string"
           THEN [h |-> h, v |-> HashToken(value.s)]
           ELSE IF Truthy(value)
           THEN [h |-> h, v |-> REDACTED_NON_STRING]
           ELSE [h |-> h, v |-> value]
      ELSE IF SomeIncluded(fieldsToRemove, keyLower)
      THEN [h |-> h, v |-> REDACTED]
      ELSE redactObject(h, value, fieldsToHash, fieldsToRemove)

\* the body of the loop over Object.entries(obj): the value that
\* result[key] is set to, and the heap after
RedactField(h, key, value, fieldsToHash, fieldsToRemove) ==
  LET keyLower == toLowerCase(key)
  IN  IF SomeIncluded(fieldsToRemove, keyLower)
      THEN [h |-> h, v |-> REDACTED]
      ELSE IF SomeIncluded(fieldsToHash, keyLower)
      THEN IF Truthy(value) /\ value.t = "string"
           THEN [h |-> h, v |-> HashToken(value.s)]
           ELSE IF Truthy(value)
           THEN [h |-> h, v |-> REDACTED_NON_STRING]
           ELSE [h |-> h, v |-> value]
      ELSE redactObject(h, value, fieldsToHash, fieldsToRemove)

\* result[key] = value, for a result made by {} that holds no such key yet:
\* a new own property, except for the key '__proto__', an accessor of
\* Object.prototype whose setter changes the prototype (if value is an object
\* or null) and adds no own property
SetProperty(result, key, value) ==
  IF key = k_proto THEN result ELSE Append(result, <<key, value>>)

\* for (const [key, value] of Object.entries(obj)) { ... result[key] = ... }
RedactEntries(h, entries, fieldsToHash, fieldsToRemove, result) ==
  IF entries = <<>> THEN [h |-> h, es |-> result]
  ELSE LET r == RedactField(h, Head(entries)[1], Head(entries)[2],
                            fieldsToHash, fieldsToRemove)
       IN  RedactEntries(r.h, Tail(entries), fieldsToHash, fieldsToRemove,
                         SetProperty(result, Head(entries)[1], r.v))

\* obj.map(item => redactObject(item, fieldsToHash, fieldsToRemove))
RedactItems(h, items, fieldsToHash, fieldsToRemove, result) ==
  IF items = <<>> THEN [h |-> h, vs |-> result]
  ELSE LET r == redactObject(h, Head(items), fieldsToHash, fieldsToRemove)
       IN  RedactItems(r.h, Tail(items), fieldsToHash, fieldsToRemove,
                       Append(result, r.v))

\* redactObject(obj, fieldsToHash, fieldsToRemove): the heap after, and
\* the value returned (a new array, a new object, or obj itself)
redactObject(h, obj, fieldsToHash, fieldsToRemove) ==
  IF obj.t = "ref" /\ h[obj.at].t = "array"
  THEN LET r == RedactItems(h, h[obj.at].a, fieldsToHash, fieldsToRemove, <<>>)
       IN  [h |-> Append(r.h, Arr(r.vs)), v |-> Ref(Len(r.h) + 1)]
  ELSE IF obj.t = "ref"
  THEN LET r == RedactEntries(h, h[obj.at].e, fieldsToHash, fieldsToRemove, <<>>)
       IN  [h |-> Append(r.h, Obj(r.es)), v |-> Ref(Len(r.h) + 1)]
  ELSE [h |-> h, v |-> obj]

\* a default parameter: the default when the argument is undefined
DefaultTo(arg, default) == IF arg.t = "undefined" THEN default ELSE arg

\* redactPII without the copy, setting the fields of obj itself
redactPII_inPlace(h, obj, fieldsToHash, fieldsToRemove) ==
  IF ~Truthy(obj) \/ obj.t # "ref" THEN [h |-> h, v |-> obj]
  ELSE IF h[obj.at].t = "array"
  THEN redactObject(h, obj, DefaultTo(fieldsToHash, DEFAULT_PII_FIELDS),
                    DefaultTo(fieldsToRemove, FIELDS_TO_REMOVE))
  ELSE LET r == RedactEntries(h, h[obj.at].e,
                              DefaultTo(fieldsToHash, DEFAULT_PII_FIELDS),
                              DefaultTo(fieldsToRemove, FIELDS_TO_REMOVE), <<>>)
       IN  [h |-> [r.h EXCEPT ![obj.at] = Obj(r.es)], v |-> obj]

\* redactPII(obj, fieldsToHash = DEFAULT_PII_FIELDS,
\*           fieldsToRemove = FIELDS_TO_REMOVE)
redactPII(h, obj, fieldsToHash, fieldsToRemove) ==
  IF ~Truthy(obj) \/ obj.t # "ref" THEN [h |-> h, v |-> obj]
  ELSE LET copy == DeepClone(h, obj)
       IN  redactObject(copy.h, copy.v,
                        DefaultTo(fieldsToHash, DEFAULT_PII_FIELDS),
                        DefaultTo(fieldsToRemove, FIELDS_TO_REMOVE))

(***************************************************************************)
(* lib/index.js: the one-level redactPII                                   *)
(***************************************************************************)

\* fieldsToHash = ['email','phone','ssn','name']
SHALLOW_PII_FIELDS ==
  Arr(<< Str(<<"e", "m", "a", "i", "l">>), Str(<<"p", "h", "o", "n", "e">>),
         Str(<<"s", "s", "n">>), Str(<<"n", "a", "m", "e">>) >>)

\* ['raw_document','full_payload','document_bytes']
RAW_FIELDS ==
  << k_raw_document,
     <<"f", "u", "l", "l", "_", "p", "a", "y", "l", "o", "a", "d">>,
     <<"d", "o", "c", "u", "m", "e", "n", "t", "_", "b", "y", "t", "e", "s">> >>

\* `hash:${hash}`
HashWhole(text) == Str(<<"h", "a", "s", "h", ":">> \o HexEncode(Sha256(text)))

\* entries with the value at key k replaced
PutKey(entries, k, value) ==
  [i \in 1..Len(entries) |->
     IF entries[i][1] = k THEN <<k, value>> ELSE entries[i]]

\* delete copy[k]
DeleteKey(entries, k) == SelectSeq(entries, LAMBDA e : e[1] # k)

\* copy[f] is truthy, for an own key f of the entries
TruthyAt(entries, f) ==
  \E i \in 1..Len(entries) : entries[i][1] = f /\ Truthy(entries[i][2])

\* fieldsToHash.forEach(f => { if (copy[f]) copy[f] = `hash:${...}` })
RECURSIVE HashListed(_, _, _)
HashListed(h, entries, fields) ==
  IF fields = <<>> THEN entries
  ELSE LET f == Head(fields).s
       IN  HashListed(h,
             IF TruthyAt(entries, f)
             THEN PutKey(entries, f,
                         HashWhole(String(Deref(h, GetKey(Obj(entries), f)))))
             ELSE entries,
             Tail(fields))

\* [...].forEach(f => { if (copy[f]) delete copy[f]; })
RECURSIVE DeleteListed(_, _)
DeleteListed(entries, fields) ==
  IF fields = <<>> THEN entries
  ELSE DeleteListed(IF TruthyAt(entries, Head(fields))
                    THEN DeleteKey(entries, Head(fields)) ELSE entries,
                    Tail(fields))

\* redactPII(obj = {}, fieldsToHash = ['email','phone','ssn','name']) of
\* lib/index.js: the heap after and what the call returned or threw. The
\* copy of null is null, and reading a property of it throws; a primitive
\* or an array has none of the listed properties.
redactPIIShallow(h, obj, fieldsToHash) ==
  LET given == DefaultTo(obj, Obj(<<>>))
      made  == IF given.t = "object" THEN Allocate(h, given)
               ELSE [h |-> h, v |-> given]
      copy  == DeepClone(made.h, made.v)
      list  == DefaultTo(fieldsToHash, SHALLOW_PII_FIELDS).a
  IN  IF copy.v.t = "null"
      THEN [h |-> copy.h,
            r |-> Threw("TypeError: Cannot read properties of null")]
      ELSE IF copy.v.t = "ref" /\ copy.h[copy.v.at].t = "object"
      THEN LET hashed == HashListed(copy.h, copy.h[copy.v.at].e, list)
               kept   == DeleteListed(hashed, RAW_FIELDS)
           IN  [h |-> [copy.h EXCEPT ![copy.v.at] = Obj(kept)],
                r |-> Returned(copy.v)]
      ELSE [h |-> copy.h, r |-> Returned(copy.v)]

(***************************************************************************)
(* lib/resolveEntityPageId.js                                              *)
(***************************************************************************)

\* rows of the Entities database
MaxRows == 3

\* the correlation ids of the rows
corr1 == <<"c", "1">>
corr2 == <<"c", "2">>

\* the Entities database: its rows in the order the store returns them,
\* each with its page id and its Correlation ID
RowsOf(correlations) ==
  [i \in 1..Len(correlations) |->
     [id |-> <<"p">> \o NatToString(i), correlation |-> correlations[i]]]

EntityStores ==
  UNION {{RowsOf(c) : c \in [1..n -> {corr1, corr2}]} : n \in 0..MaxRows}

\* the correlationId arguments
CorrelationIds == {Str(corr1), Str(corr2), Str(<<>>), Undefined}

\* res.results of notion.databases.query({ filter: { property:
\* 'Correlation ID', rich_text: { equals: correlationId } }, page_size: 1 })
QueryResults(entities, correlationId) ==
  LET matching == SelectSeq(entities,
                            LAMBDA row : Str(row.correlation) = correlationId)
  IN  SubSeq(matching, 1, IF Len(matching) < 1 THEN Len(matching) ELSE 1)

\* resolveEntityPageId(correlationId, entitiesDbId, notionClient) of
\* lib/resolveEntityPageId.js; ok: the query resolves, else it rejects
resolveEntityPageId(correlationId, entities, ok) ==
  IF ~ok THEN Returned(Null)
  ELSE LET found == QueryResults(entities, correlationId)
       IN  IF Len(found) > 0 THEN Returned(Str(found[1].id))
           ELSE Returned(Null)

\* resolveEntityPageId(correlationId, entitiesDbId) of the variant with the
\* module-level client: no query for a falsy correlationId, and no catch
resolveEntityPageIdNoCatch(correlationId, entities, ok) ==
  IF ~Truthy(correlationId) THEN Returned(Null)
  ELSE IF ~ok THEN Threw("notion.databases.query rejected")
  ELSE LET found == QueryResults(entities, correlationId)
       IN  IF Len(found) > 0 THEN Returned(Str(found[1].id))
           ELSE Returned(Null)

\* correlation ids in one call of resolveEntityPageIds
MaxIds == 2

\* the correlationIds arguments of resolveEntityPageIds
IdLists ==
  UNION {[1..n -> {Str(corr1), Str(corr2), Str(<<>>)}] : n \in 0..MaxIds}

\* results.set(corrId, pageId) on a Map kept as its entries in insertion
\* order: the value of a key that is there is replaced in its place
MapSet(entries, key, value) ==
  IF \E i \in 1..Len(entries) : entries[i][1] = key
  THEN [i \in 1..Len(entries) |->
          IF entries[i][1] = key THEN <<key, value>> ELSE entries[i]]
  ELSE Append(entries, <<key, value>>)

\* if (pageId) results.set(corrId, pageId)
SetIfFound(entries, corrId, pageId) ==
  IF Truthy(pageId) THEN MapSet(entries, corrId, pageId) ELSE entries

\* the resolveEntityPageId that the resolveEntityPageIds of the file calls
resolveEntityPageIdOf(by, correlationId, entities, ok) ==
  IF by = "lib/resolveEntityPageId.js"
  THEN resolveEntityPageId(correlationId, entities, ok)
  ELSE resolveEntityPageIdNoCatch(correlationId, entities, ok)

(***************************************************************************)
(* createAuditSummary                                                      *)
(***************************************************************************)

\* the largest maxLength that createAuditSummary is called with
MaxLength == 8

\* text.substring(0, end): an end below 0 counts as 0, one beyond the text
\* as its length
SubstringTo(text, end) ==
  SubSeq(text, 1, IF end < 0 THEN 0 ELSE IF end > Len(text) THEN Len(text) ELSE end)

\* json.length <= maxLength ? json : json.substring(0, maxLength - 3) + '...'
Truncated(json, maxLength) ==
  IF Len(json) <= maxLength THEN json
  ELSE SubstringTo(json, maxLength - 3) \o <<".", ".", ".">>

\* Truncated that cuts at maxLength
Truncated_noEllipsis(json, maxLength) ==
  IF Len(json) <= maxLength THEN json
  ELSE SubstringTo(json, maxLength)

\* createAuditSummary(obj, maxLength = 500) of lib/redactPII.js, for a
\* JSON-like obj: redactPII with its default fields, JSON.stringify, cut
createAuditSummary(obj, maxLength) ==
  LET made == Allocate(<<>>, obj)
      redacted == redactPII(made.h, made.v, Undefined, Undefined)
      json == JSONstringify(Deref(redacted.h, redacted.v), NoReplacer)
  IN  Returned(Str(Truncated(json, DefaultTo(maxLength, Num(500)).n)))

\* createAuditSummary(obj, maxLength = 500) of lib/index.js, which calls the
\* one-level redactPII and throws what that throws
createAuditSummaryShallow(obj, maxLength) ==
  LET redacted == redactPIIShallow(<<>>, obj, Undefined)
  IN  IF redacted.r.threw THEN redacted.r
      ELSE LET json == JSONstringify(Deref(redacted.h, redacted.r.value), NoReplacer)
           IN  Returned(Str(Truncated(json, DefaultTo(maxLength, Num(500)).n)))

\* the values that are summarized
SummaryInputs == ValuesTo(MaxDepth - 1) \cup RawInputs

\* the maxLength arguments; Undefined: argument omitted
MaxLengths == {Undefined} \cup {Num(n) : n \in 0..MaxLength}

(***************************************************************************)
(* staging/harness.js: prompt hash and audit summary                       *)
(***************************************************************************)

\* crypto.createHash('sha256').update(promptText, 'utf8').digest('hex')
computePromptHash(promptText) == HexEncode(Sha256(promptText))

\* the auditSummary of runSingleTest(index); slice(0, 200) keeps the first
\* 200 characters
AuditSummary(index) ==
  LET applicant == generateTestApplicant(index)
      json == JSONstringify(RedactedApplicant(applicant), NoReplacer)
  IN  Obj(<< <<k_correlation_id, GetKey(applicant, k_correlation_id)>>,
             <<k_prompt_hash, Str(computePromptHash(generateTestPrompt(applicant)))>>,
             <<k_input_summary, Str(SubSeq(json, 1, IF Len(json) < 200 THEN Len(json) ELSE 200))>>,
             <<k_timestamp, Str(Timestamp(index))>> >>)

\* the values of config.hmacKey
HarnessKeys == {Key1, StagingKey}

(***************************************************************************)
(* HMAC-SHA256 of the texts that are signed                                *)
(***************************************************************************)

\* CanonicalPayload with the keys left in insertion order
CanonicalPayload_unsorted(payload) ==
  IF payload.t = "string" THEN payload.s
  ELSE JSONstringify(payload, ObjectKeys(payload))

\* the text that signAudit and verifySignature authenticate:
\*   typeof payload === 'string' ? payload
\*                               : JSON.stringify(payload, Object.keys(payload).sort())
CanonicalPayload(payload) ==
  IF payload.t = "string" THEN payload.s
  ELSE JSONstringify(payload, sort(ObjectKeys(payload)))

\* the text the signers without canonicalization authenticate:
\*   typeof payload === 'string' ? payload : JSON.stringify(payload)
PlainPayload(payload) ==
  IF payload.t = "string" THEN payload.s
  ELSE JSONstringify(payload, NoReplacer)

k_signature == <<"s", "i", "g", "n", "a", "t", "u", "r", "e">>
k_signed_at == <<"s", "i", "g", "n", "e", "d", "_", "a", "t">>

\* audit entries that were signed before: they have a signature field or a
\* signed_at field already
ResignedPayloads ==
  { Obj(<< <<a_, Num(1)>>, <<k_signature, Str(<<"0", "0">>)>> >>),
    Obj(<< <<k_signed_at, Str(Timestamp(0))>>, <<a_, Num(1)>> >>),
    Obj(<< <<a_, Num(1)>>, <<k_signature, Str(<<"0", "0">>)>>,
           <<k_signed_at, Str(Timestamp(0))>> >>) }

\* Every (key, message) pair that is ever authenticated.
HmacInputs ==
  (KeyTexts \X ({CanonicalPayload(p) : p \in Payloads \cup ResignedPayloads}
                \cup {PlainPayload(p) : p \in Payloads}))
  \cup (HarnessKeys \X ({CanonicalPayload(AuditSummary(index)) : index \in 1..MaxTests}
                       \cup {PlainPayload(AuditSummary(index)) : index \in 1..MaxTests}))

\* each (key, message) pair with its place among all of them, by key and
\* then by message: distinct pairs have distinct places
HmacOrder ==
  {<<m, Cardinality({n \in HmacInputs :
                       \/ TextBefore(n[1], m[1])
                       \/ n[1] = m[1] /\ TextBefore(n[2], m[2])}) + 1>> :
     m \in HmacInputs}

\* crypto.createHmac('sha256', key).update(message, 'utf8').digest():
\* a keyed hash taken as collision-free, i.e. an injection of the
\* (key, message) pairs into the DigestLen-byte strings.
Hmac(key, message) ==
  ToBytes((CHOOSE p \in HmacOrder : p[1] = <<key, message>>)[2], DigestLen)

(***************************************************************************)
(* lib/signAudit.js                                                        *)
(***************************************************************************)

\* process.env: the variables HMAC_KEY and AUDIT_HMAC_KEY, Undefined if unset
Env(hmac, audit) == [HMAC_KEY |-> hmac, AUDIT_HMAC_KEY |-> audit]

\* ResolveKey with the environment taking precedence over the argument
ResolveKey_envFirst(hmacKey, env) ==
  OrElse(OrElse(env.HMAC_KEY, hmacKey), env.AUDIT_HMAC_KEY)

\* hmacKey || process.env.HMAC_KEY || process.env.AUDIT_HMAC_KEY
ResolveKey(hmacKey, env) ==
  OrElse(OrElse(hmacKey, env.HMAC_KEY), env.AUDIT_HMAC_KEY)

\* signAudit(auditPayload, hmacKey = null) under process.env = env
signAudit(auditPayload, hmacKey, env) ==
  LET key == ResolveKey(hmacKey, env)
  IN  IF ~Truthy(key)
      THEN Threw("HMAC_KEY environment variable is required for signing")
      ELSE Returned(Str(HexEncode(Hmac(key.s, CanonicalPayload(auditPayload)))))

\* the own enumerable properties that { ...value } copies: the entries of
\* an object, the characters of a string under their indices
SpreadOf(value) ==
  CASE value.t = "object" -> value.e
    [] value.t = "string" ->
         [i \in 1..Len(value.s) |-> <<NatToString(i - 1), Str(<<value.s[i]>>)>>]
    [] OTHER -> <<>>

\* a property of an object literal after a spread: it takes the place of
\* a copied property of the same key, or comes last
DefineProperty(entries, key, value) ==
  IF \E i \in 1..Len(entries) : entries[i][1] = key
  THEN [i \in 1..Len(entries) |->
          IF entries[i][1] = key THEN <<key, value>> ELSE entries[i]]
  ELSE Append(entries, <<key, value>>)

\* the instants new Date() returns
Clock == {Timestamp(1), Timestamp(2)}

\* createSignedAudit setting signature and signed_at on auditData itself
createSignedAudit_inPlace(auditData, hmacKey, env, now) ==
  LET signature == signAudit(auditData, hmacKey, env)
      signed == Obj(DefineProperty(
                      DefineProperty(SpreadOf(auditData), k_signature, signature.value),
                      k_signed_at, Str(now)))
  IN  IF signature.threw THEN [r |-> signature, data |-> auditData]
      ELSE [r |-> Returned(signed),
            data |-> IF auditData.t = "object" THEN signed ELSE auditData]

\* createSignedAudit(auditData, hmacKey = null) under process.env = env at
\* the instant now: what it returned or threw, and auditData after the call
createSignedAudit(auditData, hmacKey, env, now) ==
  LET signature == signAudit(auditData, hmacKey, env)
  IN  IF signature.threw THEN [r |-> signature, data |-> auditData]
      ELSE [r |-> Returned(Obj(DefineProperty(
                      DefineProperty(SpreadOf(auditData), k_signature, signature.value),
                      k_signed_at, Str(now)))),
            data |-> auditData]

\* crypto.timingSafeEqual(a, b), called with buffers of equal length
timingSafeEqual(a, b) == a = b

\* verifySignature recomputing over JSON.stringify(payload), no key order fixed
verifySignature_plain(payload, signatureHex, hmacKey, env) ==
  LET key == ResolveKey(hmacKey, env)
  IN  IF ~Truthy(key)
      THEN Threw("HMAC_KEY environment variable is required for verification")
      ELSE LET expected == HexEncode(Hmac(key.s, PlainPayload(payload)))
               a == BufferFromHex(expected)
               b == BufferFromHex(OrElse(signatureHex, Str(<<>>)).s)
           IN  IF Len(a) # Len(b) THEN Returned(Bool(FALSE))
               ELSE Returned(Bool(timingSafeEqual(a, b)))

\* verifySignature(payload, signatureHex, hmacKey = null) under process.env = env
verifySignature(payload, signatureHex, hmacKey, env) ==
  LET key == ResolveKey(hmacKey, env)
  IN  IF ~Truthy(key)
      THEN Threw("HMAC_KEY environment variable is required for verification")
      ELSE LET expected == HexEncode(Hmac(key.s, CanonicalPayload(payload)))
               a == BufferFromHex(expected)
               b == BufferFromHex(OrElse(signatureHex, Str(<<>>)).s)
           IN  IF Len(a) # Len(b) THEN Returned(Bool(FALSE))
               ELSE Returned(Bool(timingSafeEqual(a, b)))

(***************************************************************************)
(* staging/harness.js: helpers, collaborators, summary                     *)
(***************************************************************************)

\* signAudit(payload, key) of the harness: JSON.stringify without a key list
harnessSignAudit(payload, key) == HexEncode(Hmac(key, PlainPayload(payload)))

\* verifySignature(payload, sig, key) of the harness
harnessVerifySignature(payload, sig, key) ==
  LET expected == harnessSignAudit(payload, key)
      a == BufferFromHex(expected)
      b == BufferFromHex(OrElse(sig, Str(<<>>)).s)
  IN  IF Len(a) # Len(b) THEN FALSE ELSE timingSafeEqual(a, b)

\* what the screening endpoint does with a request
Responses == {"echo", "other hash", "empty body", "refused",
              "http error", "network error"}

\* a hex digit other than c
OtherDigit(c) == IF c = "0" THEN "1" ELSE "0"

\* a prompt hash that is not the one sent
OtherHash(promptHash) == <<OtherDigit(Head(promptHash))>> \o Tail(promptHash)

\* callScreeningHandler whose answer never carries the prompt hash
callScreeningHandler_noEcho(screeningEndpoint, applicant, promptHash, response) ==
  [success |-> TRUE, simulated |-> ~Truthy(screeningEndpoint),
   decision |-> "pass", score |-> 85, prompt_hash |-> Undefined,
   error |-> "undefined"]

\* callScreeningHandler(applicant, promptHash) of a harness with the given
\* screeningEndpoint, whose endpoint (if any) answers by `response`: the
\* simulated answer, { success: false, error }, or { success: true, ...data }
\* (a success member of the body replaces the true)
callScreeningHandler(screeningEndpoint, applicant, promptHash, response) ==
  IF ~Truthy(screeningEndpoint)
  THEN [success |-> TRUE, simulated |-> TRUE,
        decision |-> IF Len(GetKey(applicant, k_risk_indicators).a) > 0
                     THEN "manual_review" ELSE "pass",
        score |-> IF Len(GetKey(applicant, k_risk_indicators).a) > 0 THEN 65 ELSE 85,
        prompt_hash |-> Str(promptHash), error |-> "undefined"]
  ELSE CASE response = "network error" ->
              [success |-> FALSE, simulated |-> FALSE, decision |-> "undefined",
               score |-> 0, prompt_hash |-> Undefined, error |-> "fetch failed"]
         [] response = "http error" ->
              [success |-> FALSE, simulated |-> FALSE, decision |-> "undefined",
               score |-> 0, prompt_hash |-> Undefined, error |-> "HTTP 500"]
         [] response = "refused" ->
              [success |-> FALSE, simulated |-> FALSE, decision |-> "undefined",
               score |-> 0, prompt_hash |-> Undefined, error |-> "undefined"]
         [] response = "empty body" ->
              [success |-> TRUE, simulated |-> FALSE, decision |-> "undefined",
               score |-> 0, prompt_hash |-> Undefined, error |-> "undefined"]
         [] response = "other hash" ->
              [success |-> TRUE, simulated |-> FALSE, decision |-> "pass",
               score |-> 85, prompt_hash |-> Str(OtherHash(promptHash)),
               error |-> "undefined"]
         [] response = "echo" ->
              [success |-> TRUE, simulated |-> FALSE, decision |-> "pass",
               score |-> 85, prompt_hash |-> Str(promptHash), error |-> "undefined"]

\* the result object of runSingleTest(index) as it starts
NewResult(index) ==
  [index |-> index, correlation_id |-> Null, audit_write |-> Null,
   prompt_hash_match |-> Null, decision_write |-> Null,
   agent_output_write |-> Null, signature_valid |-> Null, errors |-> <<>>]

\* result.errors.push(`${what}${detail}`)
PushError(result, what, detail) ==
  [result EXCEPT !.errors = Append(@, <<what, detail>>)]

\* what a store write returned: { success: true, pageId },
\* { success: true, skipped: true, reason } or { success: false, error }
Written == [success |-> TRUE, skipped |-> Undefined, error |-> "undefined"]
\* Skipped that reports the missing configuration as a failed write
Skipped_asFailure ==
  [success |-> FALSE, skipped |-> Undefined, error |-> "not configured"]

\* { success: true, skipped: true, reason }
Skipped == [success |-> TRUE, skipped |-> Bool(TRUE), error |-> "undefined"]
Failed  == [success |-> FALSE, skipped |-> Undefined, error |-> "store unavailable"]

\* results.filter(r => r[field]).length
CountTruthy(rs, field) ==
  Cardinality({k \in 1..Len(rs) : Truthy(rs[k][field])})

\* results.reduce((sum, r) => sum + r.errors.length, 0)
RECURSIVE TotalErrors(_)
TotalErrors(rs) ==
  IF rs = <<>> THEN 0 ELSE Len(Head(rs).errors) + TotalErrors(Tail(rs))

\* results.flatMap(r => r.errors)
RECURSIVE AllErrors(_)
AllErrors(rs) ==
  IF rs = <<>> THEN <<>> ELSE Head(rs).errors \o AllErrors(Tail(rs))

\* (count / testCount * 100).toFixed(1) + '%'; 0 / 0 is NaN
Rate(count, testCount) ==
  IF testCount = 0 THEN <<"N", "a", "N", "%">>
  ELSE LET tenths == (count * 2000 + testCount) \div (2 * testCount)
       IN  NatToString(tenths \div 10) \o <<".", Digit(tenths % 10), "%">>

\* Passed with the prompt-hash gate left out
Passed_withoutHashGate(gates) ==
  gates.audit_write_100 /\ gates.signature_valid_100

\* summary.passed = audit_write_100 && prompt_hash_match_100 && signature_valid_100
Passed(gates) ==
  gates.audit_write_100 /\ gates.prompt_hash_match_100 /\ gates.signature_valid_100

\* the summary that runHarness computes of the results
Summary(rs, testCount) ==
  LET counts ==
        [audit_write_success    |-> CountTruthy(rs, "audit_write"),
         prompt_hash_match      |-> CountTruthy(rs, "prompt_hash_match"),
         decision_write_success |-> CountTruthy(rs, "decision_write"),
         agent_output_success   |-> CountTruthy(rs, "agent_output_write"),
         signature_valid        |-> CountTruthy(rs, "signature_valid"),
         total_errors           |-> TotalErrors(rs)]
      gates ==
        [audit_write_100       |-> counts.audit_write_success = testCount,
         prompt_hash_match_100 |-> counts.prompt_hash_match = testCount,
         signature_valid_100   |-> counts.signature_valid = testCount,
         \* total_errors / testCount < 0.05; x / 0 is NaN or Infinity
         error_rate_below_5    |-> testCount > 0
                                   /\ counts.total_errors * 100 < 5 * testCount]
  IN  [total_tests |-> testCount,
       results |-> counts,
       rates |-> [audit_write       |-> Rate(counts.audit_write_success, testCount),
                  prompt_hash_match |-> Rate(counts.prompt_hash_match, testCount),
                  signature_valid   |-> Rate(counts.signature_valid, testCount)],
       gates |-> gates,
       passed |-> Passed(gates),
       errors |-> AllErrors(rs)]

(***************************************************************************)
(* staging/summary-parser.js: the gate evaluator                           *)
(***************************************************************************)

\* a fraction num / den, den > 0
Fraction(num, den) == [num |-> num, den |-> den]

\* GATES with a prompt-hash threshold of 90%
GATES_promptHash90 ==
  [AUDIT_WRITE_SUCCESS_MIN |-> Fraction(1, 1),
   PROMPT_HASH_MATCH_MIN   |-> Fraction(9, 10),
   SIGNATURE_VERIFIED_MIN  |-> Fraction(1, 1),
   SCHEMA_ERROR_MAX        |-> Fraction(0, 1),
   SUCCESS_RATE_MIN        |-> Fraction(98, 100)]

\* the gate thresholds, none of the GATE_* variables being set:
\* 1.0, 1.0, 1.0, 0.0 and 0.98
GATES ==
  [AUDIT_WRITE_SUCCESS_MIN |-> Fraction(1, 1),
   PROMPT_HASH_MATCH_MIN   |-> Fraction(1, 1),
   SIGNATURE_VERIFIED_MIN  |-> Fraction(1, 1),
   SCHEMA_ERROR_MAX        |-> Fraction(0, 1),
   SUCCESS_RATE_MIN        |-> Fraction(98, 100)]

\* a ?? b
Nullish(a, b) == IF a.t \in {"undefined", "null"} THEN b ELSE a

\* count / total >= threshold and count / total <= threshold, total > 0.
\* The quotient of two small integers and the threshold are compared as
\* fractions: the division and the threshold literal round to the nearest
\* double, which keeps their order.
AtLeast(count, total, threshold) ==
  count * threshold.den >= threshold.num * total

\* AtMost with the comparison of the success-type gates
AtMost_atLeast(count, total, threshold) ==
  count * threshold.den >= threshold.num * total

AtMost(count, total, threshold) ==
  count * threshold.den <= threshold.num * total

Gate(name, pass) == [name |-> name, pass |-> pass]

\* checkGates(data). data.summary is undefined or an object with the six
\* members, each undefined or a number; data.results is undefined or an
\* array, of which the length counts. Without data.summary the read of
\* summary.total throws.
checkGates(data) ==
  IF data.summary = Undefined
  THEN Threw("TypeError: Cannot read properties of undefined")
  ELSE
  LET summ == data.summary
      total == OrElse(OrElse(summ.total, data.results), Num(0)).n
      auditWrite == Nullish(Nullish(summ.auditWriteSuccess, summ.successCount), Num(0)).n
      promptHash == Nullish(summ.promptHashMatches, Num(0)).n
      signature == Nullish(summ.signatureVerified, Num(0)).n
      schemaErrors == Nullish(summ.schemaErrors, Num(0)).n
      success == Nullish(summ.successCount, Num(0)).n
      gates ==
        << Gate("Audit Write Success",
                AtLeast(auditWrite, total, GATES.AUDIT_WRITE_SUCCESS_MIN)),
           Gate("Prompt Hash Match",
                AtLeast(promptHash, total, GATES.PROMPT_HASH_MATCH_MIN)),
           Gate("Signature Verified",
                AtLeast(signature, total, GATES.SIGNATURE_VERIFIED_MIN)),
           Gate("Schema Errors",
                AtMost(schemaErrors, total, GATES.SCHEMA_ERROR_MAX)),
           Gate("Overall Success Rate",
                AtLeast(success, total, GATES.SUCCESS_RATE_MIN)) >>
  IN  IF total = 0
      THEN Returned([gates |-> <<>>, allPassed |-> FALSE])
      ELSE Returned([gates |-> gates,
                     allPassed |-> \A g \in 1..Len(gates) : gates[g].pass])

\* the totals and, for a total, the counts of the summaries that are read
Totals == {Undefined, Num(0), Num(1), Num(10), Num(50)}
CountsOf(total) ==
  IF Truthy(total) THEN {Undefined, Num(0), Num(total.n - 1), Num(total.n)}
  ELSE {Undefined, Num(0), Num(1)}

\* runs of the gate evaluator on one summary file
MaxRuns == 3

\* the lengths of data.results (Undefined: no such member)
ResultsLengths == {Undefined, Num(0), Num(2)}

\* what summary.json holds: nothing (no such file), text that is not JSON,
\* or JSON data with or without a summary member
SummaryFiles ==
  {[state |-> st, data |-> [summary |-> Undefined, results |-> Undefined]] :
     st \in {"missing", "not JSON"}}
  \cup {[state |-> "JSON", data |-> [summary |-> Undefined, results |-> r]] :
          r \in ResultsLengths}
  \cup UNION {
       {[state |-> "JSON",
         data |-> [summary |-> [total |-> total, auditWriteSuccess |-> a,
                                promptHashMatches |-> p, signatureVerified |-> g,
                                schemaErrors |-> e, successCount |-> c],
                   results |-> r]] :
          a \in CountsOf(total), p \in CountsOf(total), g \in CountsOf(total),
          e \in CountsOf(total), c \in CountsOf(total), r \in ResultsLengths} :
       total \in Totals}

(***************************************************************************)
(* The bridge (index.js, listed in README.md): store and webhook           *)
(***************************************************************************)

\* rows of the Commands database
MaxCommands == 2

Pages == 1..MaxCommands

\* the Status options of a row; "none": the row is not created yet
Statuses == {"none", "Deploy", "Processing", "Completed", "Failed", "Cancelled"}

\* what the webhook call does: a 2xx response with or without a JSON body,
\* another response, or fetch rejects
WebhookResponses == {"200", "200 no JSON", "500", "fetch failed"}

\* triggerN8nWorkflow(commandData), the webhook answering by `response`
triggerN8nWorkflow(response) ==
  CASE response = "200"          -> [success |-> TRUE, error |-> "undefined"]
    [] response = "200 no JSON"  -> [success |-> TRUE, error |-> "undefined"]
    [] response = "500"          -> [success |-> FALSE,
                                     error |-> "HTTP 500: Internal Server Error"]
    [] response = "fetch failed" -> [success |-> FALSE, error |-> "fetch failed"]

\* FinalUpdate that marks every command Completed
FinalUpdate_alwaysCompleted(result) ==
  [newStatus |-> "Completed", notes |-> <<"Executed at ", "t">>]

\* the status and the notes of the last updateCommandStatus of
\* processCommands, for the result of the trigger
FinalUpdate(result) ==
  IF result.success
  THEN [newStatus |-> "Completed", notes |-> <<"Executed at ", "t">>]
  ELSE [newStatus |-> "Failed", notes |-> <<"Error: ", result.error>>]

\* the filter and the sort of fetchPendingCommands on the rows `status`:
\* the pages with Status = Deploy, oldest first (rows are created in the
\* order of their ids)
RECURSIVE DeployPagesFrom(_, _)
DeployPagesFrom(status, page) ==
  IF page > Len(status) THEN <<>>
  ELSE (IF status[page] = "Deploy" THEN <<page>> ELSE <<>>)
       \o DeployPagesFrom(status, page + 1)

(***************************************************************************)
(* State: one call of signAudit, then one call of verifySignature          *)
(***************************************************************************)

VARIABLES
  env,           \* process.env
  signCall,      \* the arguments of the signAudit call, NoCall before it
  signResult,    \* what the signAudit call returned or threw
  verifyCall,    \* the arguments of the verifySignature call
  verifyResult,  \* what the verifySignature call returned or threw
  heap,          \* the objects and arrays created so far
  redactCall,    \* the arguments of the redactPII calls, and the input's
                 \* value before the first call
  redactResults, \* the values the redactPII calls returned, in call order
  shallowResult, \* what the call of the one-level redactPII returned or threw
  config,        \* the config of the harness
  pc,            \* where runHarness stands: the await it is suspended at
  loopIndex,     \* the loop variable i of runHarness
  trial,         \* the locals of the runSingleTest call in progress
  results,       \* the results array of runHarness
  auditStore,    \* the pages of the audit store (TASKS_DB_ID)
  decisionStore, \* the pages of the decision-log store (DECISION_DB_ID)
  outputStore,   \* the pages of the agent-output store (AGENT_OUTPUTS_DB_ID)
  calls,         \* the calls to the collaborators so far, issued and returned
  summary,       \* the summary written to summary.json
  exitCode,      \* the code of process.exit, -1 while the process runs
  faults,        \* the failures so far
  summaryFile,   \* what staging/summary.json holds
  gatePc,        \* where main of the parser stands
  gateResult,    \* what checkGates returned or threw
  gateExit,      \* the exit code of the parser, -1 while it runs
  gateRuns,      \* the runs of the parser that have exited: result, exit code
  commandStatus, \* the Status of each row of the Commands database
  commandNotes,  \* the Notes of each row of the Commands database
  processedCommands, \* the set processedCommands of the bridge
  bridgePc,      \* where the polling loop of the bridge stands
  commands,      \* the pages of processCommands still to be gone through
  triggerResult, \* what triggerN8nWorkflow returned for the page in hand
  bridgeLog,     \* the calls of the bridge to the store and the webhook
  libCall,       \* a call of a helper of lib/: the function and its arguments
  libResult,     \* what the call returned or threw
  executions,    \* the executions of poll(): where each stands, its pages
  timers         \* the timers set by setTimeout(poll, ...) and not yet fired

signVars == <<env, signCall, signResult, verifyCall, verifyResult>>
redactVars == <<heap, redactCall, redactResults, shallowResult>>
harnessVars == <<config, pc, loopIndex, trial, results, auditStore, decisionStore,
                 outputStore, calls, summary, exitCode, faults>>
gateVars == <<summaryFile, gatePc, gateResult, gateExit, gateRuns>>
bridgeVars == <<commandStatus, commandNotes, processedCommands, bridgePc, commands,
                triggerResult, bridgeLog>>
libVars == <<libCall, libResult>>
pollVars == <<executions, timers>>
vars == <<signVars, redactVars, harnessVars, gateVars, bridgeVars, libVars, pollVars>>

NoCall == [t |-> "none"]

\* the key arguments: none (the default null), the empty string, a key
KeyArgs == {Null, Str(<<>>)} \cup {Str(k) : k \in KeyTexts}

Envs == {Env(h, a) : h \in {Undefined, Str(Key1)}, a \in {Undefined, Str(Key2)}}

\* A signature as a caller may present it: as returned, or damaged.
Forms == {"absent", "empty", "short", "odd", "long", "nonhex first",
          "other digit", "nonhex after", "digit after"}

Present(form, sig) ==
  CASE form = "exact"        -> Str(sig)
    [] form = "absent"       -> Undefined
    [] form = "empty"        -> Str(<<>>)
    [] form = "short"        -> Str(SubSeq(sig, 1, Len(sig) - 2))
    [] form = "odd"          -> Str(SubSeq(sig, 1, Len(sig) - 1))
    [] form = "long"         -> Str(sig \o <<"0", "0">>)
    [] form = "nonhex first" -> Str(<<"g">> \o Tail(sig))
    [] form = "other digit"  -> Str(SubSeq(sig, 1, Len(sig) - 1)
                                    \o <<OtherDigit(sig[Len(sig)])>>)
    [] form = "nonhex after" -> Str(sig \o <<"z", "z">>)
    [] form = "digit after"  -> Str(sig \o <<"0">>)

\* no redactPII call is made
RedactIdle ==
  /\ heap = <<>>
  /\ redactCall = NoCall
  /\ redactResults = <<>>
  /\ shallowResult = NoCall

\* the harness is not run
HarnessIdle ==
  /\ config = NoCall
  /\ pc = "idle"
  /\ loopIndex = 0
  /\ trial = NoCall
  /\ results = <<>>
  /\ auditStore = <<>>
  /\ decisionStore = <<>>
  /\ outputStore = <<>>
  /\ calls = <<>>
  /\ summary = NoCall
  /\ exitCode = -1
  /\ faults = 0

\* no poll() of the bridge is executed
PollIdle ==
  /\ executions = <<>>
  /\ timers = 0

\* no helper of lib/ is called
LibIdle ==
  /\ libCall = NoCall
  /\ libResult = NoCall

\* the bridge is not run
BridgeIdle ==
  /\ commandStatus = <<>>
  /\ commandNotes = <<>>
  /\ processedCommands = {}
  /\ bridgePc = "idle"
  /\ commands = <<>>
  /\ triggerResult = NoCall
  /\ bridgeLog = <<>>

\* the gate evaluator is not run
GateIdle ==
  /\ summaryFile = NoCall
  /\ gatePc = "idle"
  /\ gateResult = NoCall
  /\ gateExit = -1
  /\ gateRuns = <<>>

\* what the signing calls leave alone
otherThanSign == <<libVars, pollVars, redactVars, harnessVars, gateVars, bridgeVars>>

SignInit ==
  /\ env \in Envs
  /\ signCall = NoCall
  /\ signResult = NoCall
  /\ verifyCall = NoCall
  /\ verifyResult = NoCall
  /\ RedactIdle
  /\ HarnessIdle
  /\ GateIdle
  /\ BridgeIdle
  /\ LibIdle
  /\ PollIdle

\* a caller signs a payload
SignAudit ==
  /\ signCall = NoCall
  /\ \E payload \in Payloads, hmacKey \in KeyArgs :
       /\ signCall' = [payload |-> payload, hmacKey |-> hmacKey]
       /\ signResult' = signAudit(payload, hmacKey, env)
  /\ UNCHANGED <<env, verifyCall, verifyResult, otherThanSign>>

\* a caller verifies the signature it was given, for some payload and key
VerifySignature ==
  /\ signResult # NoCall
  /\ ~signResult.threw
  /\ verifyCall = NoCall
  /\ \E payload \in Payloads, hmacKey \in KeyArgs :
       /\ verifyCall' = [payload |-> payload, signatureHex |-> signResult.value,
                         hmacKey |-> hmacKey, form |-> "exact"]
       /\ verifyResult' = verifySignature(payload, signResult.value, hmacKey, env)
  /\ UNCHANGED <<env, signCall, signResult, otherThanSign>>

\* a caller verifies a damaged signature for the signed payload and key
VerifyDamaged ==
  /\ signResult # NoCall
  /\ ~signResult.threw
  /\ verifyCall = NoCall
  /\ \E form \in Forms :
       LET signatureHex == Present(form, signResult.value.s)
       IN  /\ verifyCall' = [payload |-> signCall.payload,
                             signatureHex |-> signatureHex,
                             hmacKey |-> signCall.hmacKey, form |-> form]
           /\ verifyResult' = verifySignature(signCall.payload, signatureHex,
                                              signCall.hmacKey, env)
  /\ UNCHANGED <<env, signCall, signResult, otherThanSign>>

SignNext == SignAudit \/ VerifySignature \/ VerifyDamaged

SignSpec == SignInit /\ [][SignNext]_vars

(***************************************************************************)
(* State: an input object, and calls of redactPII on it                    *)
(***************************************************************************)

\* no signing call is made
SignIdle ==
  /\ env = Env(Undefined, Undefined)
  /\ signCall = NoCall
  /\ signResult = NoCall
  /\ verifyCall = NoCall
  /\ verifyResult = NoCall

\* what the redaction calls leave alone
otherThanRedact == <<libVars, pollVars, signVars, harnessVars, gateVars, bridgeVars>>

\* a caller holds a JSON-like value and a policy
RedactInit ==
  /\ \E input \in RedactInputs, policy \in Policies :
       LET made == Allocate(<<>>, input)
       IN  /\ heap = made.h
           /\ redactCall = [obj |-> made.v, fieldsToHash |-> policy[1],
                            fieldsToRemove |-> policy[2], before |-> input]
  /\ redactResults = <<>>
  /\ shallowResult = NoCall
  /\ SignIdle
  /\ HarnessIdle
  /\ GateIdle
  /\ BridgeIdle
  /\ LibIdle
  /\ PollIdle

\* the caller calls redactPII(obj, fieldsToHash, fieldsToRemove)
RedactPII ==
  /\ redactCall # NoCall
  /\ shallowResult = NoCall
  /\ Len(redactResults) < MaxCalls
  /\ LET r == redactPII(heap, redactCall.obj, redactCall.fieldsToHash,
                        redactCall.fieldsToRemove)
     IN  /\ heap' = r.h
         /\ redactResults' = Append(redactResults, r.v)
  /\ UNCHANGED <<redactCall, shallowResult, otherThanRedact>>

\* the caller calls the redactPII of lib/index.js: redactPII(obj, fieldsToHash)
RedactPIIShallow ==
  /\ redactCall # NoCall
  /\ shallowResult = NoCall
  /\ redactResults = <<>>
  /\ LET r == redactPIIShallow(heap, redactCall.obj, redactCall.fieldsToHash)
     IN  /\ heap' = r.h
         /\ shallowResult' = r.r
  /\ UNCHANGED <<redactCall, redactResults, otherThanRedact>>

RedactNext == RedactPII \/ RedactPIIShallow

RedactSpec == RedactInit /\ [][RedactNext]_vars

(***************************************************************************)
(* State: a run of staging/harness.js                                      *)
(***************************************************************************)

\* what the harness leaves alone
otherThanHarness == <<libVars, pollVars, signVars, redactVars, gateVars, bridgeVars>>

\* the values of process.env.HMAC_KEY under which the harness runs
HarnessEnvKeys == {Undefined, Str(Key1)}

\* the configurations: the optional stores and the screening endpoint set or
\* not, HMAC_KEY set or not, TEST_COUNT. NOTION_TOKEN and TASKS_DB_ID are
\* set: without them the script exits before runHarness is called.
Configs ==
  [testCount : 0..MaxTests,
   decisionDbId : {Undefined, Str(<<"d", "b", "1">>)},
   agentOutputsDbId : {Undefined, Str(<<"d", "b", "2">>)},
   screeningEndpoint : {Undefined, Str(<<"u", "r", "l">>)},
   hmacKey : {OrElse(k, Str(StagingKey)) : k \in HarnessEnvKeys}]

\* runHarness() is called: results = [], i = 1
HarnessInit ==
  /\ config \in Configs
  /\ pc = "loop"
  /\ loopIndex = 1
  /\ trial = NoCall
  /\ results = <<>>
  /\ auditStore = <<>>
  /\ decisionStore = <<>>
  /\ outputStore = <<>>
  /\ calls = <<>>
  /\ summary = NoCall
  /\ exitCode = -1
  /\ faults = 0
  /\ SignIdle
  /\ RedactIdle
  /\ GateIdle
  /\ BridgeIdle
  /\ LibIdle
  /\ PollIdle

Call(ev, t) == [ev |-> ev, index |-> t.result.index,
                correlation_id |-> GetKey(t.applicant, k_correlation_id).s]

\* callScreeningHandler(applicant, promptHash) is called: it posts to the
\* screening endpoint, or answers itself when none is configured
ScreeningCall(t) ==
  Call(IF Truthy(config.screeningEndpoint) THEN "screening invoked"
       ELSE "screening simulated", t)

ScreeningCalls == {"screening invoked", "screening simulated"}

\* callScreeningHandler has returned screeningResult
ScreeningReturn(t, screeningResult) ==
  [ev |-> "screening returned", index |-> t.result.index,
   correlation_id |-> GetKey(t.applicant, k_correlation_id).s,
   success |-> screeningResult.success,
   prompt_hash |-> screeningResult.prompt_hash]

\* AuditThenScreening with the screening call made before the audit write
\* is awaited
AuditThenScreening_screeningFirst(t) ==
  << ScreeningCall(t), Call("audit returned", t) >>

\* await writeAuditEntry(...) returns, then await callScreeningHandler(...)
\* is called
AuditThenScreening(t) ==
  << Call("audit returned", t), ScreeningCall(t) >>

\* runSingleTest(index) under config.hmacKey = key, before step 4: the
\* result with the correlation id, the applicant, the prompt hash, the
\* audit summary and its signature
NewTrial(index, key) ==
  LET applicant == generateTestApplicant(index)
      auditSummary == AuditSummary(index)
  IN  [result |-> [NewResult(index) EXCEPT
                     !.correlation_id = GetKey(applicant, k_correlation_id)],
       applicant |-> applicant,
       promptHash |-> computePromptHash(generateTestPrompt(applicant)),
       auditSummary |-> auditSummary,
       signature |-> Str(harnessSignAudit(auditSummary, key)),
       screeningResult |-> NoCall]

\* the trials as they begin, for every index and key, each computed once
NewTrials ==
  {<<index, key, NewTrial(index, key)>> : index \in 1..MaxTests, key \in HarnessKeys}

NewTrialOf(index, key) ==
  (CHOOSE n \in NewTrials : n[1] = index /\ n[2] = key)[3]

\* i <= config.testCount: runSingleTest(i) runs up to the await of
\* writeAuditEntry, whose notion.pages.create is issued
StartTrial ==
  /\ pc = "loop"
  /\ loopIndex <= config.testCount
  /\ trial' = NewTrialOf(loopIndex, config.hmacKey.s)
  /\ calls' = Append(calls, Call("audit issued", trial'))
  /\ pc' = "audit"
  /\ UNCHANGED <<config, loopIndex, results, auditStore, decisionStore, outputStore,
                 summary, exitCode, faults, otherThanHarness>>

\* i <= config.testCount and generateTestApplicant throws: the catch of
\* runSingleTest records it, the trial returns its result, results.push
GeneratorThrows ==
  /\ pc = "loop"
  /\ loopIndex <= config.testCount
  /\ faults < MaxFaults
  /\ faults' = faults + 1
  /\ results' = Append(results, PushError(NewResult(loopIndex), "Unexpected error: ",
                                          "no entropy"))
  /\ pc' = "delay"
  /\ UNCHANGED <<config, loopIndex, trial, auditStore, decisionStore, outputStore,
                 calls, summary, exitCode, otherThanHarness>>

\* notion.pages.create of writeAuditEntry resolves or rejects; the trial
\* records audit_write, verifies the signature and calls callScreeningHandler
AuditWritten ==
  /\ pc = "audit"
  /\ \E ok \in BOOLEAN :
       LET auditResult == IF ok THEN Written ELSE Failed
           r1 == [trial.result EXCEPT !.audit_write = Bool(auditResult.success)]
           r2 == IF ~auditResult.success
                 THEN PushError(r1, "Audit write failed: ", auditResult.error)
                 ELSE r1
           r3 == [r2 EXCEPT !.signature_valid =
                    Bool(harnessVerifySignature(trial.auditSummary, trial.signature,
                                                config.hmacKey.s))]
       IN  /\ ~ok => faults < MaxFaults
           /\ faults' = IF ok THEN faults ELSE faults + 1
           /\ auditStore' =
                IF ok
                THEN Append(auditStore,
                            [correlation_id |-> GetKey(trial.applicant, k_correlation_id).s,
                             prompt_hash |-> trial.promptHash,
                             status |-> "pending"])
                ELSE auditStore
           /\ trial' = [trial EXCEPT !.result = r3]
           /\ calls' = calls \o AuditThenScreening(trial)
  /\ pc' = "screening"
  /\ UNCHANGED <<config, loopIndex, results, decisionStore, outputStore, summary,
                 exitCode, otherThanHarness>>

\* AfterWrite that records no error when the write fails
AfterWrite_silent(result, field, what, written) ==
  [result EXCEPT ![field] = OrElse(Bool(written.success), written.skipped)]

\* result.decision_write / agent_output_write and the error of a store write
AfterWrite(result, field, what, written) ==
  LET r == [result EXCEPT ![field] = OrElse(Bool(written.success), written.skipped)]
  IN  IF ~written.success /\ ~Truthy(written.skipped)
      THEN PushError(r, what, written.error)
      ELSE r

\* callScreeningHandler returns. On success the trial records
\* prompt_hash_match and calls writeDecisionLog, which issues its
\* notion.pages.create if DECISION_DB_ID is set; otherwise it records the
\* error and returns its result, results.push
Screened ==
  /\ pc = "screening"
  /\ \E response \in Responses :
       LET screeningResult == callScreeningHandler(config.screeningEndpoint,
                                trial.applicant, trial.promptHash, response)
           match == screeningResult.prompt_hash = Str(trial.promptHash)
           r1 == [trial.result EXCEPT !.prompt_hash_match = Bool(match)]
           r2 == IF ~match THEN PushError(r1, "Prompt hash mismatch", "") ELSE r1
           faulty == Truthy(config.screeningEndpoint) /\ response # "echo"
       IN  /\ ~Truthy(config.screeningEndpoint) => response = "echo"
           /\ faulty => faults < MaxFaults
           /\ faults' = IF faulty THEN faults + 1 ELSE faults
           /\ IF screeningResult.success
              THEN /\ trial' = [trial EXCEPT !.result = r2,
                                            !.screeningResult = screeningResult]
                   /\ calls' = calls \o
                        << ScreeningReturn(trial, screeningResult) >> \o
                        (IF Truthy(config.decisionDbId)
                         THEN << Call("decision issued", trial) >> ELSE <<>>)
                   /\ pc' = "decision"
                   /\ UNCHANGED results
              ELSE /\ trial' = [trial EXCEPT !.screeningResult = screeningResult]
                   /\ calls' = Append(calls, ScreeningReturn(trial, screeningResult))
                   /\ results' = Append(results,
                                        PushError(trial.result, "Screening failed: ",
                                                  screeningResult.error))
                   /\ pc' = "delay"
  /\ UNCHANGED <<config, loopIndex, auditStore, decisionStore, outputStore, summary,
                 exitCode, otherThanHarness>>

\* DecisionLogged of a trial that ends when its decision-log write fails
DecisionLogged_stopOnFailure ==
  /\ pc = "decision"
  /\ \E ok \in BOOLEAN :
       LET configured == Truthy(config.decisionDbId)
           decisionResult == IF ~configured THEN Skipped
                             ELSE IF ok THEN Written ELSE Failed
           decision == IF trial.screeningResult.decision = "undefined"
                       THEN "manual_review" ELSE trial.screeningResult.decision
           r == AfterWrite(trial.result, "decision_write", "Decision write failed: ",
                           decisionResult)
       IN  /\ ~configured => ok
           /\ ~ok => faults < MaxFaults
           /\ faults' = IF ok THEN faults ELSE faults + 1
           /\ decisionStore' =
                IF configured /\ ok
                THEN Append(decisionStore,
                            [correlation_id |-> GetKey(trial.applicant, k_correlation_id).s,
                             decision |-> decision,
                             score |-> trial.screeningResult.score,
                             prompt_hash |-> trial.promptHash])
                ELSE decisionStore
           /\ trial' = [trial EXCEPT !.result = r]
           /\ IF ok
              THEN /\ calls' = calls \o
                        (IF configured THEN << Call("decision returned", trial) >>
                         ELSE <<>>) \o
                        (IF Truthy(config.agentOutputsDbId)
                         THEN << Call("output issued", trial) >> ELSE <<>>)
                   /\ pc' = "output"
                   /\ UNCHANGED results
              ELSE /\ calls' = Append(calls, Call("decision returned", trial))
                   /\ results' = Append(results, r)
                   /\ pc' = "delay"
  /\ UNCHANGED <<config, loopIndex, auditStore, outputStore, summary,
                 exitCode, otherThanHarness>>

\* writeDecisionLog returns: skipped without DECISION_DB_ID, else its
\* notion.pages.create resolved or rejected; the trial records decision_write
\* and calls writeAgentOutput
DecisionLogged ==
  /\ pc = "decision"
  /\ \E ok \in BOOLEAN :
       LET configured == Truthy(config.decisionDbId)
           decisionResult == IF ~configured THEN Skipped
                             ELSE IF ok THEN Written ELSE Failed
           decision == IF trial.screeningResult.decision = "undefined"
                       THEN "manual_review" ELSE trial.screeningResult.decision
       IN  /\ ~configured => ok
           /\ ~ok => faults < MaxFaults
           /\ faults' = IF ok THEN faults ELSE faults + 1
           /\ decisionStore' =
                IF configured /\ ok
                THEN Append(decisionStore,
                            [correlation_id |-> GetKey(trial.applicant, k_correlation_id).s,
                             decision |-> decision,
                             score |-> trial.screeningResult.score,
                             prompt_hash |-> trial.promptHash])
                ELSE decisionStore
           /\ trial' = [trial EXCEPT !.result =
                          AfterWrite(@, "decision_write", "Decision write failed: ",
                                     decisionResult)]
           /\ calls' = calls \o
                (IF configured THEN << Call("decision returned", trial) >> ELSE <<>>) \o
                (IF Truthy(config.agentOutputsDbId)
                 THEN << Call("output issued", trial) >> ELSE <<>>)
  /\ pc' = "output"
  /\ UNCHANGED <<config, loopIndex, results, auditStore, outputStore, summary,
                 exitCode, otherThanHarness>>

\* writeAgentOutput returns: skipped without AGENT_OUTPUTS_DB_ID, else its
\* notion.pages.create resolved or rejected; the trial records
\* agent_output_write and returns its result, results.push
OutputLogged ==
  /\ pc = "output"
  /\ \E ok \in BOOLEAN :
       LET configured == Truthy(config.agentOutputsDbId)
           outputResult == IF ~configured THEN Skipped
                           ELSE IF ok THEN Written ELSE Failed
           r == AfterWrite(trial.result, "agent_output_write",
                           "Agent output write failed: ", outputResult)
       IN  /\ ~configured => ok
           /\ ~ok => faults < MaxFaults
           /\ faults' = IF ok THEN faults ELSE faults + 1
           /\ outputStore' =
                IF configured /\ ok
                THEN Append(outputStore,
                            [correlation_id |-> GetKey(trial.applicant, k_correlation_id).s,
                             prompt_hash |-> trial.promptHash, status |-> "ok"])
                ELSE outputStore
           /\ trial' = [trial EXCEPT !.result = r]
           /\ results' = Append(results, r)
           /\ calls' = calls \o
                (IF configured THEN << Call("output returned", trial) >> ELSE <<>>)
  /\ pc' = "delay"
  /\ UNCHANGED <<config, loopIndex, auditStore, decisionStore, summary, exitCode,
                 otherThanHarness>>

\* NextTrial of a harness that gives up after a trial with errors
NextTrial_abortOnError ==
  /\ pc = "delay"
  /\ loopIndex' = IF results[Len(results)].errors # <<>>
                  THEN config.testCount + 1 ELSE loopIndex + 1
  /\ trial' = NoCall
  /\ pc' = "loop"
  /\ UNCHANGED <<config, results, auditStore, decisionStore, outputStore, calls,
                 summary, exitCode, faults, otherThanHarness>>

\* the 200 ms delay is over: i++
NextTrial ==
  /\ pc = "delay"
  /\ loopIndex' = loopIndex + 1
  /\ trial' = NoCall
  /\ pc' = "loop"
  /\ UNCHANGED <<config, results, auditStore, decisionStore, outputStore, calls,
                 summary, exitCode, faults, otherThanHarness>>

\* the members of the object that runHarness writes to summary.json
SummaryMembers == {"timestamp", "duration_ms", "total_tests", "results", "rates",
                   "gates", "passed", "errors"}

\* JSON.parse of the summary.json that runHarness wrote, as checkGates
\* reads it: data.summary, and the length of data.results (the results
\* member is the object of the counts, which has no length)
HarnessArtifact(sm) ==
  [state |-> "JSON",
   data |-> [summary |-> IF "summary" \in SummaryMembers THEN Obj(<<>>) ELSE Undefined,
             results |-> Undefined]]

\* i > config.testCount: the summary is computed,
\* fs.writeFileSync(summaryPath, JSON.stringify(summary, null, 2)) writes it
\* to summary.json, process.exit(summary.passed ? 0 : 1)
Summarize ==
  /\ pc = "loop"
  /\ loopIndex > config.testCount
  /\ summary' = Summary(results, config.testCount)
  /\ summaryFile' = HarnessArtifact(summary')
  /\ exitCode' = IF summary'.passed THEN 0 ELSE 1
  /\ pc' = "exited"
  /\ UNCHANGED <<config, loopIndex, trial, results, auditStore, decisionStore,
                 outputStore, calls, faults, gatePc, gateResult, gateExit, gateRuns,
                 libVars, pollVars, signVars, redactVars, bridgeVars>>

HarnessNext ==
  \/ StartTrial \/ GeneratorThrows \/ AuditWritten \/ Screened
  \/ DecisionLogged \/ OutputLogged \/ NextTrial \/ Summarize

HarnessSpec == HarnessInit /\ [][HarnessNext]_vars

(***************************************************************************)
(* State: a run of staging/summary-parser.js                               *)
(***************************************************************************)

\* what the gate evaluator leaves alone
otherThanGate == <<libVars, pollVars, signVars, redactVars, harnessVars, bridgeVars>>

\* main() is called
GateInit ==
  /\ summaryFile \in SummaryFiles
  /\ gatePc = "parseSummary"
  /\ gateResult = NoCall
  /\ gateExit = -1
  /\ gateRuns = <<>>
  /\ SignIdle
  /\ RedactIdle
  /\ HarnessIdle
  /\ BridgeIdle
  /\ LibIdle
  /\ PollIdle

\* the file as fs.readFile leaves it
NoFile == [state |-> "missing", data |-> [summary |-> Undefined, results |-> Undefined]]

\* ParseSummary of a parser that removes the file it has read
ParseSummary_consuming ==
  /\ gatePc = "parseSummary"
  /\ IF summaryFile.state = "JSON"
     THEN gatePc' = "checkGates" /\ UNCHANGED <<gateExit, gateRuns>>
     ELSE /\ gatePc' = "exited" /\ gateExit' = 2
          /\ gateRuns' = Append(gateRuns, [result |-> gateResult, exit |-> 2])
  /\ summaryFile' = NoFile
  /\ UNCHANGED <<gateResult, otherThanGate>>

\* await parseSummary(): the data of the file, or process.exit(2) when the
\* file is missing or is not JSON
ParseSummary ==
  /\ gatePc = "parseSummary"
  /\ IF summaryFile.state = "JSON"
     THEN gatePc' = "checkGates" /\ UNCHANGED <<gateExit, gateRuns>>
     ELSE /\ gatePc' = "exited" /\ gateExit' = 2
          /\ gateRuns' = Append(gateRuns, [result |-> gateResult, exit |-> 2])
  /\ UNCHANGED <<summaryFile, gateResult, otherThanGate>>

\* passed = checkGates(data); process.exit(passed ? 0 : 1); an exception
\* is caught by main().catch: process.exit(2)
CheckGates ==
  /\ gatePc = "checkGates"
  /\ gateResult' = checkGates(summaryFile.data)
  /\ gateExit' = IF gateResult'.threw THEN 2
                 ELSE IF gateResult'.value.allPassed THEN 0 ELSE 1
  /\ gateRuns' = Append(gateRuns, [result |-> gateResult', exit |-> gateExit'])
  /\ gatePc' = "exited"
  /\ UNCHANGED <<summaryFile, otherThanGate>>

\* node staging/summary-parser.js is run once more
RunAgain ==
  /\ gatePc = "exited"
  /\ Len(gateRuns) < MaxRuns
  /\ gatePc' = "parseSummary"
  /\ gateResult' = NoCall
  /\ gateExit' = -1
  /\ UNCHANGED <<summaryFile, gateRuns, otherThanGate>>

GateNext == ParseSummary \/ CheckGates \/ RunAgain

GateSpec == GateInit /\ [][GateNext]_vars

(***************************************************************************)
(* State: the harness, then the gate evaluator on what it wrote            *)
(***************************************************************************)

\* node staging/summary-parser.js is run after the harness has exited
RunParser ==
  /\ pc = "exited"
  /\ gatePc = "idle"
  /\ gatePc' = "parseSummary"
  /\ UNCHANGED <<summaryFile, gateResult, gateExit, gateRuns, otherThanGate>>

PipelineNext == HarnessNext \/ RunParser \/ ParseSummary \/ CheckGates

PipelineSpec == HarnessInit /\ [][PipelineNext]_vars

(***************************************************************************)
(* State: the bridge polling the Commands database                         *)
(***************************************************************************)

\* what the bridge leaves alone
otherThanBridge == <<signVars, redactVars, harnessVars, gateVars, libVars, pollVars>>

\* main() has started the polling; the Commands database has no row with
\* Status = Deploy yet
BridgeInit ==
  /\ commandStatus = [page \in Pages |-> "none"]
  /\ commandNotes = [page \in Pages |-> <<>>]
  /\ processedCommands = {}
  /\ bridgePc = "sleep"
  /\ commands = <<>>
  /\ triggerResult = NoCall
  /\ bridgeLog = <<>>
  /\ SignIdle
  /\ RedactIdle
  /\ HarnessIdle
  /\ GateIdle
  /\ LibIdle
  /\ PollIdle

\* a user creates the next row, with Status = Deploy
CreateCommand ==
  /\ bridgePc # "idle"
  /\ \E page \in Pages :
       /\ commandStatus[page] = "none"
       /\ \A older \in 1..(page - 1) : commandStatus[older] # "none"
       /\ commandStatus' = [commandStatus EXCEPT ![page] = "Deploy"]
  /\ UNCHANGED <<commandNotes, processedCommands, bridgePc, commands, triggerResult,
                 bridgeLog, otherThanBridge>>

\* poll(): processCommands() calls fetchPendingCommands, whose
\* notion.databases.query is issued
Poll ==
  /\ bridgePc = "sleep"
  /\ bridgePc' = "query"
  /\ UNCHANGED <<commandStatus, commandNotes, processedCommands, commands,
                 triggerResult, bridgeLog, otherThanBridge>>

\* notion.databases.query resolves with the rows of Status = Deploy, or
\* rejects and fetchPendingCommands returns []
QueryReturned ==
  /\ bridgePc = "query"
  /\ \E ok \in BOOLEAN :
       commands' = IF ok THEN DeployPagesFrom(commandStatus, 1) ELSE <<>>
  /\ bridgePc' = "loop"
  /\ UNCHANGED <<commandStatus, commandNotes, processedCommands, triggerResult,
                 bridgeLog, otherThanBridge>>

\* the for loop of processCommands is over: setTimeout(poll, pollInterval)
Sleep ==
  /\ bridgePc = "loop"
  /\ commands = <<>>
  /\ bridgePc' = "sleep"
  /\ UNCHANGED <<commandStatus, commandNotes, processedCommands, commands,
                 triggerResult, bridgeLog, otherThanBridge>>

\* the next page is in processedCommands: continue
SkipProcessed ==
  /\ bridgePc = "loop"
  /\ commands # <<>>
  /\ Head(commands) \in processedCommands
  /\ commands' = Tail(commands)
  /\ UNCHANGED <<commandStatus, commandNotes, processedCommands, bridgePc,
                 triggerResult, bridgeLog, otherThanBridge>>

\* the next page is new and has no properties (a partial page object):
\* extractCommandData throws, processCommands() rejects with the rest of
\* the pages not gone through, poll() logs the error and
\* setTimeout(poll, pollInterval)
ExtractThrew ==
  /\ bridgePc = "loop"
  /\ commands # <<>>
  /\ Head(commands) \notin processedCommands
  /\ commands' = <<>>
  /\ bridgePc' = "sleep"
  /\ UNCHANGED <<commandStatus, commandNotes, processedCommands, triggerResult,
                 bridgeLog, otherThanBridge>>

\* the next page is new and whole: updateCommandStatus(page.id, 'Processing')
\* is called and its notion.pages.update is issued
MarkProcessing ==
  /\ bridgePc = "loop"
  /\ commands # <<>>
  /\ Head(commands) \notin processedCommands
  /\ bridgePc' = "marking"
  /\ UNCHANGED <<commandStatus, commandNotes, processedCommands, commands,
                 triggerResult, bridgeLog, otherThanBridge>>

\* the row after notion.pages.update({ Status: newStatus, Notes: notes if
\* any }) resolved (ok) or rejected, which updateCommandStatus only logs
UpdatedStatus(status, page, newStatus, ok) ==
  IF ok THEN [status EXCEPT ![page] = newStatus] ELSE status
UpdatedNotes(allNotes, page, notes, ok) ==
  IF ok /\ notes # <<>> THEN [allNotes EXCEPT ![page] = notes] ELSE allNotes

\* the update to Processing returns; processedCommands.add(page.id);
\* triggerN8nWorkflow is called and posts to the webhook
Marked ==
  /\ bridgePc = "marking"
  /\ \E ok \in BOOLEAN :
       LET page == Head(commands)
       IN  /\ commandStatus' = UpdatedStatus(commandStatus, page, "Processing", ok)
           /\ commandNotes' = UpdatedNotes(commandNotes, page, <<>>, ok)
           /\ processedCommands' = processedCommands \cup {page}
           /\ bridgeLog' = bridgeLog \o
                << [ev |-> "update", page |-> page, newStatus |-> "Processing",
                    notes |-> <<>>, ok |-> ok],
                   [ev |-> "webhook called", page |-> page,
                    stored |-> commandStatus'[page]] >>
  /\ bridgePc' = "triggering"
  /\ UNCHANGED <<commands, triggerResult, otherThanBridge>>

\* the webhook call returns or fails; the last updateCommandStatus is
\* called and its notion.pages.update is issued
Triggered ==
  /\ bridgePc = "triggering"
  /\ \E response \in WebhookResponses :
       /\ triggerResult' = triggerN8nWorkflow(response)
       /\ bridgeLog' = Append(bridgeLog,
              [ev |-> "webhook returned", page |-> Head(commands),
               response |-> response])
  /\ bridgePc' = "finishing"
  /\ UNCHANGED <<commandStatus, commandNotes, processedCommands, commands,
                 otherThanBridge>>

\* the last update returns; the loop goes on with the next page
Finished ==
  /\ bridgePc = "finishing"
  /\ \E ok \in BOOLEAN :
       LET page == Head(commands)
           final == FinalUpdate(triggerResult)
       IN  /\ commandStatus' = UpdatedStatus(commandStatus, page, final.newStatus, ok)
           /\ commandNotes' = UpdatedNotes(commandNotes, page, final.notes, ok)
           /\ bridgeLog' = Append(bridgeLog,
                  [ev |-> "update", page |-> page, newStatus |-> final.newStatus,
                   notes |-> final.notes, ok |-> ok])
  /\ commands' = Tail(commands)
  /\ triggerResult' = NoCall
  /\ bridgePc' = "loop"
  /\ UNCHANGED <<processedCommands, otherThanBridge>>

BridgeNext ==
  \/ CreateCommand \/ Poll \/ QueryReturned \/ Sleep \/ SkipProcessed
  \/ ExtractThrew \/ MarkProcessing \/ Marked \/ Triggered \/ Finished

BridgeSpec == BridgeInit /\ [][BridgeNext]_vars

(***************************************************************************)
(* State: one call of a helper of lib/                                     *)
(***************************************************************************)

\* what the helper calls leave alone
otherThanLib == <<redactVars, harnessVars, gateVars, bridgeVars, pollVars>>

\* a caller holds a JSON-like value and a maxLength
SummaryInit ==
  /\ \E obj \in SummaryInputs, maxLength \in MaxLengths :
       libCall = [obj |-> obj, maxLength |-> maxLength]
  /\ libResult = NoCall
  /\ SignIdle
  /\ RedactIdle
  /\ HarnessIdle
  /\ GateIdle
  /\ BridgeIdle
  /\ PollIdle

\* the caller calls the createAuditSummary of lib/redactPII.js
CreateAuditSummary ==
  /\ libCall # NoCall
  /\ "maxLength" \in DOMAIN libCall
  /\ libResult = NoCall
  /\ libResult' = [by |-> "lib/redactPII.js",
                   r |-> createAuditSummary(libCall.obj, libCall.maxLength)]
  /\ UNCHANGED <<libCall, signVars, otherThanLib>>

\* the caller calls the createAuditSummary of lib/index.js
CreateAuditSummaryShallow ==
  /\ libCall # NoCall
  /\ "maxLength" \in DOMAIN libCall
  /\ libResult = NoCall
  /\ libResult' = [by |-> "lib/index.js",
                   r |-> createAuditSummaryShallow(libCall.obj, libCall.maxLength)]
  /\ UNCHANGED <<libCall, signVars, otherThanLib>>

SummaryNext == CreateAuditSummary \/ CreateAuditSummaryShallow

SummarySpec == SummaryInit /\ [][SummaryNext]_vars

\* a caller holds an audit entry and a key argument; process.env is set
SignedAuditInit ==
  /\ env \in Envs
  /\ signCall = NoCall
  /\ signResult = NoCall
  /\ verifyCall = NoCall
  /\ verifyResult = NoCall
  /\ \E auditData \in Payloads \cup ResignedPayloads, hmacKey \in KeyArgs :
       libCall = [auditData |-> auditData, hmacKey |-> hmacKey]
  /\ libResult = NoCall
  /\ RedactIdle
  /\ HarnessIdle
  /\ GateIdle
  /\ BridgeIdle
  /\ PollIdle

\* the caller calls createSignedAudit(auditData, hmacKey)
CreateSignedAudit ==
  /\ libCall # NoCall
  /\ "auditData" \in DOMAIN libCall
  /\ libResult = NoCall
  /\ \E now \in Clock :
       LET made == createSignedAudit(libCall.auditData, libCall.hmacKey, env, now)
       IN  libResult' = [r |-> made.r, data |-> made.data, now |-> now]
  /\ UNCHANGED <<libCall, signVars, otherThanLib>>

SignedAuditNext == CreateSignedAudit

SignedAuditSpec == SignedAuditInit /\ [][SignedAuditNext]_vars

\* a caller holds a correlation id; the Entities database has its rows
ResolveInit ==
  /\ \E correlationId \in CorrelationIds, entities \in EntityStores :
       libCall = [correlationId |-> correlationId, entities |-> entities]
  /\ libResult = NoCall
  /\ SignIdle
  /\ RedactIdle
  /\ HarnessIdle
  /\ GateIdle
  /\ BridgeIdle
  /\ PollIdle

\* the caller awaits resolveEntityPageId of lib/resolveEntityPageId.js
ResolveEntityPageId ==
  /\ libCall # NoCall
  /\ "correlationId" \in DOMAIN libCall
  /\ libResult = NoCall
  /\ \E ok \in BOOLEAN :
       libResult' = [by |-> "lib/resolveEntityPageId.js", ok |-> ok,
                     r |-> resolveEntityPageId(libCall.correlationId,
                                               libCall.entities, ok)]
  /\ UNCHANGED <<libCall, signVars, otherThanLib>>

\* the caller awaits resolveEntityPageId of the variant without catch
ResolveEntityPageIdNoCatch ==
  /\ libCall # NoCall
  /\ "correlationId" \in DOMAIN libCall
  /\ libResult = NoCall
  /\ \E ok \in BOOLEAN :
       libResult' = [by |-> "module-level client", ok |-> ok,
                     r |-> resolveEntityPageIdNoCatch(libCall.correlationId,
                                                      libCall.entities, ok)]
  /\ UNCHANGED <<libCall, signVars, otherThanLib>>

ResolveNext == ResolveEntityPageId \/ ResolveEntityPageIdNoCatch

ResolveSpec == ResolveInit /\ [][ResolveNext]_vars

\* a caller holds a list of correlation ids; the Entities database has its
\* rows
BatchInit ==
  /\ \E correlationIds \in IdLists, entities \in EntityStores :
       libCall = [correlationIds |-> correlationIds, entities |-> entities]
  /\ libResult = NoCall
  /\ SignIdle
  /\ RedactIdle
  /\ HarnessIdle
  /\ GateIdle
  /\ BridgeIdle
  /\ PollIdle

\* the caller calls resolveEntityPageIds of one of the two files:
\* const results = new Map()
ResolveEntityPageIds ==
  /\ libCall # NoCall
  /\ "correlationIds" \in DOMAIN libCall
  /\ libResult = NoCall
  /\ \E by \in {"lib/resolveEntityPageId.js", "module-level client"} :
       libResult' = [by |-> by, at |-> "for", next |-> 1, mapping |-> <<>>,
                     log |-> <<>>, r |-> NoCall]
  /\ UNCHANGED <<libCall, signVars, otherThanLib>>

\* for (const corrId of correlationIds): resolveEntityPageId(corrId, ...)
\* is called and awaited
LookupCalled ==
  /\ libResult # NoCall
  /\ "mapping" \in DOMAIN libResult
  /\ libResult.at = "for"
  /\ libResult.next <= Len(libCall.correlationIds)
  /\ libResult' = [libResult EXCEPT
                     !.at = "await",
                     !.log = Append(@, [ev |-> "called", i |-> libResult.next])]
  /\ UNCHANGED <<libCall, signVars, otherThanLib>>

\* the awaited resolveEntityPageId settles: its page id, if any, is set in
\* the Map and the loop goes on, or its rejection rejects the call
LookupSettled ==
  /\ libResult # NoCall
  /\ "mapping" \in DOMAIN libResult
  /\ libResult.at = "await"
  /\ \E ok \in BOOLEAN :
       LET corrId == libCall.correlationIds[libResult.next]
           pageId == resolveEntityPageIdOf(libResult.by, corrId, libCall.entities, ok)
           logged == Append(libResult.log,
                            [ev |-> "settled", i |-> libResult.next, r |-> pageId])
       IN  IF pageId.threw
           THEN libResult' = [libResult EXCEPT
                                !.at = "done", !.log = logged, !.r = pageId]
           ELSE libResult' = [libResult EXCEPT
                                !.at = "for", !.log = logged,
                                !.next = @ + 1,
                                !.mapping = SetIfFound(@, corrId, pageId.value)]
  /\ UNCHANGED <<libCall, signVars, otherThanLib>>

\* the loop is over: return results
MapReturned ==
  /\ libResult # NoCall
  /\ "mapping" \in DOMAIN libResult
  /\ libResult.at = "for"
  /\ libResult.next > Len(libCall.correlationIds)
  /\ libResult' = [libResult EXCEPT
                     !.at = "done", !.r = Returned(Arr(libResult.mapping))]
  /\ UNCHANGED <<libCall, signVars, otherThanLib>>

BatchNext == ResolveEntityPageIds \/ LookupCalled \/ LookupSettled \/ MapReturned

BatchSpec == BatchInit /\ [][BatchNext]_vars

(***************************************************************************)
(* State: the polling of the bridge, one execution of poll() per timer     *)
(***************************************************************************)

\* executions of poll() that the model has room for
MaxExecs == 2

Slots == 1..MaxExecs

\* what the polling leaves alone
otherThanPoll == <<signVars, redactVars, harnessVars, gateVars, libVars>>

NotRunning == [pc |-> "free", commands |-> <<>>, triggerResult |-> NoCall]

\* processedCommands.has(page.id) that finds nothing
AlreadyProcessed_never(processed, page) == FALSE

\* processedCommands.has(page.id)
AlreadyProcessed(processed, page) == page \in processed

\* the timers after one fired and poll() began, were the polling set up by
\* setInterval: the timer stays armed
TimersWhenPollBegins_interval(armed) == armed

\* the timers after one fired and poll() began: a timer of setTimeout
\* fires once
TimersWhenPollBegins(armed) == armed - 1

\* the timers after processCommands() threw, were the call not in a try:
\* poll() rejects before its setTimeout
TimersAfterThrow_uncaught(armed) == armed

\* the timers after processCommands() threw: poll() catches, logs the
\* error and calls setTimeout(poll, config.pollInterval)
TimersAfterThrow(armed) == armed + 1

\* the timers after processCommands() returned: setTimeout(poll, ...)
TimersAfterReturn(armed) == armed + 1

\* startPolling() has called poll(), whose processCommands() has issued the
\* query of fetchPendingCommands; there is no row yet
PollingInit ==
  /\ commandStatus = [page \in Pages |-> "none"]
  /\ commandNotes = [page \in Pages |-> <<>>]
  /\ processedCommands = {}
  /\ bridgePc = "executions"
  /\ commands = <<>>
  /\ triggerResult = NoCall
  /\ bridgeLog = <<>>
  /\ executions = [e \in Slots |-> IF e = 1 THEN [NotRunning EXCEPT !.pc = "query"]
                                   ELSE NotRunning]
  /\ timers = 0
  /\ SignIdle
  /\ RedactIdle
  /\ HarnessIdle
  /\ GateIdle
  /\ LibIdle

\* a user sets a row that left Deploy back to Deploy
Redeploy ==
  /\ bridgePc = "executions"
  /\ \E page \in Pages :
       /\ commandStatus[page] \in {"Processing", "Completed", "Failed"}
       /\ commandStatus' = [commandStatus EXCEPT ![page] = "Deploy"]
  /\ UNCHANGED <<commandNotes, processedCommands, bridgePc, commands, triggerResult,
                 bridgeLog, otherThanBridge>>

\* a timer fires: poll() begins, processCommands() is called and issues
\* the query of fetchPendingCommands
TimerFires ==
  /\ bridgePc = "executions"
  /\ timers > 0
  /\ \E e \in Slots :
       /\ executions[e].pc = "free"
       /\ \A d \in 1..(e - 1) : executions[d].pc # "free"
       /\ executions' = [executions EXCEPT ![e].pc = "query"]
  /\ timers' = TimersWhenPollBegins(timers)
  /\ UNCHANGED <<bridgeVars, otherThanPoll>>

\* the query of execution e resolves with the rows of Status = Deploy, or
\* rejects and fetchPendingCommands returns []
QuerySettled(e) ==
  /\ executions[e].pc = "query"
  /\ \E ok \in BOOLEAN :
       executions' = [executions EXCEPT
                        ![e].pc = "loop",
                        ![e].commands = IF ok THEN DeployPagesFrom(commandStatus, 1)
                                        ELSE <<>>]
  /\ UNCHANGED <<timers, bridgeVars, otherThanPoll>>

\* the loop of execution e is over: processCommands() returns and poll()
\* sets the timer of the next poll
PollEnds(e) ==
  /\ executions[e].pc = "loop"
  /\ executions[e].commands = <<>>
  /\ executions' = [executions EXCEPT ![e] = NotRunning]
  /\ timers' = TimersAfterReturn(timers)
  /\ UNCHANGED <<bridgeVars, otherThanPoll>>

\* the next page of execution e is in processedCommands: continue
SkipsProcessed(e) ==
  /\ executions[e].pc = "loop"
  /\ executions[e].commands # <<>>
  /\ AlreadyProcessed(processedCommands, Head(executions[e].commands))
  /\ executions' = [executions EXCEPT ![e].commands = Tail(@)]
  /\ UNCHANGED <<timers, bridgeVars, otherThanPoll>>

\* the next page of execution e has no properties (a partial page object):
\* extractCommandData throws, processCommands() rejects, poll() catches
ExtractThrows(e) ==
  /\ executions[e].pc = "loop"
  /\ executions[e].commands # <<>>
  /\ ~AlreadyProcessed(processedCommands, Head(executions[e].commands))
  /\ executions' = [executions EXCEPT ![e] = NotRunning]
  /\ timers' = TimersAfterThrow(timers)
  /\ UNCHANGED <<bridgeVars, otherThanPoll>>

\* the next page of execution e is new: the update to Processing is issued
UpdatesToProcessing(e) ==
  /\ executions[e].pc = "loop"
  /\ executions[e].commands # <<>>
  /\ ~AlreadyProcessed(processedCommands, Head(executions[e].commands))
  /\ executions' = [executions EXCEPT ![e].pc = "marking"]
  /\ UNCHANGED <<timers, bridgeVars, otherThanPoll>>

\* the update to Processing of execution e returns;
\* processedCommands.add(page.id); the webhook is posted to
ProcessingSettled(e) ==
  /\ executions[e].pc = "marking"
  /\ \E ok \in BOOLEAN :
       LET page == Head(executions[e].commands)
       IN  /\ commandStatus' = UpdatedStatus(commandStatus, page, "Processing", ok)
           /\ commandNotes' = UpdatedNotes(commandNotes, page, <<>>, ok)
           /\ processedCommands' = processedCommands \cup {page}
           /\ bridgeLog' = bridgeLog \o
                << [ev |-> "update", page |-> page, newStatus |-> "Processing",
                    notes |-> <<>>, ok |-> ok],
                   [ev |-> "webhook called", page |-> page,
                    stored |-> commandStatus'[page]] >>
  /\ executions' = [executions EXCEPT ![e].pc = "triggering"]
  /\ UNCHANGED <<timers, bridgePc, commands, triggerResult, otherThanPoll>>

\* the webhook call of execution e returns or fails; the last update is
\* issued
WebhookSettled(e) ==
  /\ executions[e].pc = "triggering"
  /\ \E response \in WebhookResponses :
       /\ executions' = [executions EXCEPT
                           ![e].pc = "finishing",
                           ![e].triggerResult = triggerN8nWorkflow(response)]
       /\ bridgeLog' = Append(bridgeLog,
              [ev |-> "webhook returned", page |-> Head(executions[e].commands),
               response |-> response])
  /\ UNCHANGED <<timers, commandStatus, commandNotes, processedCommands, bridgePc,
                 commands, triggerResult, otherThanPoll>>

\* the last update of execution e returns; its loop goes on
FinalSettled(e) ==
  /\ executions[e].pc = "finishing"
  /\ \E ok \in BOOLEAN :
       LET page == Head(executions[e].commands)
           final == FinalUpdate(executions[e].triggerResult)
       IN  /\ commandStatus' = UpdatedStatus(commandStatus, page, final.newStatus, ok)
           /\ commandNotes' = UpdatedNotes(commandNotes, page, final.notes, ok)
           /\ bridgeLog' = Append(bridgeLog,
                  [ev |-> "update", page |-> page, newStatus |-> final.newStatus,
                   notes |-> final.notes, ok |-> ok])
  /\ executions' = [executions EXCEPT
                      ![e].pc = "loop", ![e].commands = Tail(@),
                      ![e].triggerResult = NoCall]
  /\ UNCHANGED <<timers, processedCommands, bridgePc, commands, triggerResult,
                 otherThanPoll>>

\* a step of an execution of poll()
PollStep ==
  \/ \E e \in DOMAIN executions : QuerySettled(e)
  \/ \E e \in DOMAIN executions : PollEnds(e)
  \/ \E e \in DOMAIN executions : SkipsProcessed(e)
  \/ \E e \in DOMAIN executions : ExtractThrows(e)
  \/ \E e \in DOMAIN executions : UpdatesToProcessing(e)
  \/ \E e \in DOMAIN executions : ProcessingSettled(e)
  \/ \E e \in DOMAIN executions : WebhookSettled(e)
  \/ \E e \in DOMAIN executions : FinalSettled(e)

\* the user's steps
UserStep == CreateCommand \/ Redeploy

PollingNext == UserStep \/ TimerFires \/ PollStep

PollingSpec == PollingInit /\ [][PollingNext]_vars

\* a promise the bridge awaits settles, and so each execution of poll()
\* goes on to its end
PollingFairSpec == PollingSpec /\ WF_vars(PollStep)

(***************************************************************************)
(* All of them                                                             *)
(***************************************************************************)

Init ==
  \/ SignInit \/ RedactInit \/ HarnessInit \/ GateInit \/ BridgeInit
  \/ SummaryInit \/ SignedAuditInit \/ ResolveInit \/ BatchInit
  \/ PollingInit

Next ==
  \/ SignNext \/ RedactNext \/ PipelineNext \/ RunAgain \/ BridgeNext
  \/ SummaryNext \/ SignedAuditNext \/ ResolveNext \/ BatchNext
  \/ Redeploy \/ TimerFires \/ PollStep

Spec == Init /\ [][Next]_vars

(***************************************************************************)
(* Properties of signAudit and verifySignature                             *)
(***************************************************************************)

\* p and q hold the same fields and values, whatever the insertion order of
\* the keys of their objects
RECURSIVE SameContent(_, _)
SameContent(p, q) ==
  IF p.t # q.t THEN FALSE
  ELSE IF p.t = "object"
       THEN /\ {p.e[i][1] : i \in 1..Len(p.e)} = {q.e[i][1] : i \in 1..Len(q.e)}
            /\ \A i \in 1..Len(p.e) :
                 SameContent(p.e[i][2], GetKey(q, p.e[i][1]))
  ELSE IF p.t = "array"
       THEN /\ Len(p.a) = Len(q.a)
            /\ \A i \in 1..Len(p.a) : SameContent(p.a[i], q.a[i])
  ELSE p = q

Signed == signResult # NoCall /\ ~signResult.threw

\* verifySignature was called with the signature exactly as signAudit returned it
VerifiedExact == verifyCall # NoCall /\ verifyCall.form = "exact"

\* C1: a signature is bound to exactly one payload: for two object payloads
\* that differ in the value of some field (a nested one included), the
\* signature of the first, verified with the same key for the second, is
\* rejected.
C1_SignatureBoundToOnePayload ==
  ( /\ VerifiedExact
    /\ verifyCall.hmacKey = signCall.hmacKey
    /\ signCall.payload.t = "object"
    /\ verifyCall.payload.t = "object"
    /\ ~SameContent(signCall.payload, verifyCall.payload) )
  => verifyResult = Returned(Bool(FALSE))

\* C2: verifySignature(P, signAudit(P, K), K) returns true, for text and for
\* object payloads.
C2_SignThenVerify ==
  ( /\ VerifiedExact
    /\ verifyCall.payload = signCall.payload
    /\ verifyCall.hmacKey = signCall.hmacKey )
  => verifyResult = Returned(Bool(TRUE))

\* an object with nested objects was signed with a key argument and verified
C2_Witness ==
  /\ VerifiedExact
  /\ verifyCall.payload = signCall.payload
  /\ verifyCall.hmacKey = signCall.hmacKey
  /\ signCall.hmacKey = Str(Key1)
  /\ signCall.payload = Obj(<< <<b_, Num(1)>>, <<a_, Obj(<< <<x_, Num(1)>> >>)>> >>)
  /\ verifyResult = Returned(Bool(TRUE))

\* C3: two object payloads with the same fields and values, whose keys were
\* inserted in different orders, get the same signature.
C3_KeyOrderInvariance ==
  (signCall # NoCall /\ signCall.payload.t = "object")
  => \A q \in ObjectPayloads :
       SameContent(q, signCall.payload)
       => signAudit(q, signCall.hmacKey, env) = signResult

\* a two-key object was signed, and another insertion order of it exists
C3_Witness ==
  /\ Signed
  /\ signCall.payload = Obj(<< <<b_, Num(1)>>, <<a_, Num(MaxNum)>> >>)
  /\ \E q \in ObjectPayloads : q # signCall.payload /\ SameContent(q, signCall.payload)

\* C4: a signature made with one key argument is rejected under any other
\* key argument, whatever the environment holds.
C4_OtherKeyRejected ==
  ( /\ VerifiedExact
    /\ verifyCall.payload = signCall.payload
    /\ Truthy(signCall.hmacKey)
    /\ Truthy(verifyCall.hmacKey)
    /\ verifyCall.hmacKey # signCall.hmacKey )
  => verifyResult = Returned(Bool(FALSE))

\* signed with Key2 and verified with Key1 while the environment holds Key2
C4_Witness ==
  /\ VerifiedExact
  /\ verifyCall.payload = signCall.payload
  /\ signCall.hmacKey = Str(Key2)
  /\ verifyCall.hmacKey = Str(Key1)
  /\ env = Env(Undefined, Str(Key2))
  /\ verifyResult = Returned(Bool(FALSE))

\* C5: with a key present, a signatureHex that is not the hex encoding of
\* the expected signature (absent, empty, of another length, holding
\* non-hex characters, also after a valid signature) is rejected without an
\* exception.
C5_DamagedSignatureRejected ==
  (verifyCall # NoCall /\ verifyCall.form \in Forms)
  => verifyResult = Returned(Bool(FALSE))

\* C6, for signAudit and verifySignature of lib/signAudit.js: a call whose
\* key argument is absent or empty fails, so that no signature is computed
\* or checked with an ambient key.
C6_AbsentKeyFails ==
  /\ (signCall # NoCall /\ ~Truthy(signCall.hmacKey)) => signResult.threw
  /\ (verifyCall # NoCall /\ ~Truthy(verifyCall.hmacKey)) => verifyResult.threw

NoEnv == Env(Undefined, Undefined)

\* the key of the environment: HMAC_KEY, else AUDIT_HMAC_KEY
Ambient == IF Truthy(env.HMAC_KEY) THEN env.HMAC_KEY ELSE env.AUDIT_HMAC_KEY

\* what holds of lib/signAudit.js instead (C6): a call fails with the
\* configuration error exactly when the key argument is absent or empty and
\* the environment holds no key either; with an absent or empty key argument
\* and a key in the environment it signs or verifies as with that key given
\* as the argument.
C6_KeyFromArgumentOrEnvironment ==
  /\ signCall # NoCall =>
       IF Truthy(signCall.hmacKey)
       THEN signResult = signAudit(signCall.payload, signCall.hmacKey, NoEnv)
       ELSE IF Truthy(Ambient)
       THEN /\ ~signResult.threw
            /\ signResult = signAudit(signCall.payload, Ambient, NoEnv)
       ELSE signResult =
              Threw("HMAC_KEY environment variable is required for signing")
  /\ verifyCall # NoCall =>
       IF Truthy(verifyCall.hmacKey)
       THEN verifyResult = verifySignature(verifyCall.payload, verifyCall.signatureHex,
                                           verifyCall.hmacKey, NoEnv)
       ELSE IF Truthy(Ambient)
       THEN /\ ~verifyResult.threw
            /\ verifyResult = verifySignature(verifyCall.payload,
                                              verifyCall.signatureHex, Ambient, NoEnv)
       ELSE verifyResult =
              Threw("HMAC_KEY environment variable is required for verification")

\* signed and verified without a key argument, with AUDIT_HMAC_KEY alone set
C6_Witness ==
  /\ VerifiedExact
  /\ signCall.hmacKey = Null
  /\ verifyCall.hmacKey = Str(<<>>)
  /\ env = Env(Undefined, Str(Key2))
  /\ verifyCall.payload = signCall.payload
  /\ verifyResult = Returned(Bool(TRUE))

\* HMAC_KEY is set in the environment of the harness, and config.hmacKey
\* is that key
KeyConfigured == \E k \in HarnessEnvKeys : Truthy(k) /\ config.hmacKey = k

\* C6: no signature is ever computed or checked with a default key: the
\* harness signs the audit summary of a trial, and verifies the signature,
\* only with a key that the configuration gave, never with a built-in one.
C6_NoSignatureWithDefaultKey ==
  /\ trial # NoCall =>
       /\ KeyConfigured
       /\ trial.signature # Str(harnessSignAudit(trial.auditSummary, StagingKey))
  /\ \A n \in 1..Len(results) :
       results[n].signature_valid # Null => KeyConfigured

\* a run without HMAC_KEY has signed the audit summary of its first trial
\* with the built-in key and found the signature valid
C6_DefaultKeySeen ==
  /\ config.hmacKey = Str(StagingKey)
  /\ Len(results) >= 1
  /\ results[1].signature_valid = Bool(TRUE)
  /\ pc = "exited" /\ summary.passed

(***************************************************************************)
(* Properties of redactPII                                                 *)
(***************************************************************************)

Redacted == redactCall # NoCall /\ Len(redactResults) >= 1

\* the policy in force, and the first call's input and output as values
HashFields   == DefaultTo(redactCall.fieldsToHash, DEFAULT_PII_FIELDS)
RemoveFields == DefaultTo(redactCall.fieldsToRemove, FIELDS_TO_REMOVE)
Input        == redactCall.before
Output       == Deref(heap, redactResults[1])

\* some matcher of the list occurs in the lower-cased key
KeyMatches(list, key) ==
  \E i \in 1..Len(list.a) :
    LET m == toLowerCase(list.a[i].s)
        k == toLowerCase(key)
    IN  \E d \in 0..(Len(k) - Len(m)) : SubSeq(k, d + 1, d + Len(m)) = m

IsHex(c) == \E i \in 1..Len(HexDigits) : HexDigits[i] = c

\* 'hash:', 16 hex characters, '...'
IsHashToken(v) ==
  /\ v.t = "string"
  /\ Len(v.s) = 24
  /\ SubSeq(v.s, 1, 5) = <<"h", "a", "s", "h", ":">>
  /\ \A i \in 6..21 : IsHex(v.s[i])
  /\ SubSeq(v.s, 22, 24) = <<".", ".", ".">>

IsMarker(v) == v = REDACTED \/ v = REDACTED_NON_STRING

\* 'hash:' + the first 16 hex characters of the SHA-256 of text + '...'
TokenOf(text) ==
  Str(<<"h", "a", "s", "h", ":">>
      \o [i \in 1..16 |-> HexEncode(Sha256(text))[i]]
      \o <<".", ".", ".">>)

Missing == [t |-> "missing"]

\* The fields of `in` at the keys that match the policy and lie under no
\* matched key, each with the value the output holds there (Missing where the
\* output has not that key, or not the arrays and objects of `in` down to it).
RECURSIVE MatchedFields(_, _, _, _)
MatchedFields(in, out, hf, rf) ==
  CASE in.t = "array" ->
         IF out.t = "array" /\ Len(out.a) = Len(in.a)
         THEN UNION {MatchedFields(in.a[i], out.a[i], hf, rf) : i \in 1..Len(in.a)}
         ELSE {[key |-> <<>>, value |-> in, out |-> Missing]}
    [] in.t = "object" ->
         UNION { LET k == in.e[i][1]
                     v == in.e[i][2]
                     o == IF out.t = "object" /\ HasKey(out, k)
                          THEN GetKey(out, k) ELSE Missing
                 IN  IF KeyMatches(rf, k) \/ KeyMatches(hf, k)
                     THEN {[key |-> k, value |-> v, out |-> o]}
                     ELSE MatchedFields(v, o, hf, rf)
                 : i \in 1..Len(in.e) }
    [] OTHER -> {}

\* the matched fields of the first call
Matched == MatchedFields(Input, Output, HashFields, RemoveFields)

\* the one-level redactPII was called
RedactedShallow == redactCall # NoCall /\ shallowResult # NoCall

\* the fields the one-level redactPII hashes
ShallowFields == DefaultTo(redactCall.fieldsToHash, SHALLOW_PII_FIELDS)

\* the keys the one-level redactPII deletes, as matchers
ShallowRemoveFields == Arr([i \in 1..Len(RAW_FIELDS) |-> Str(RAW_FIELDS[i])])

\* the matched fields of the call of the one-level redactPII
MatchedShallow ==
  MatchedFields(Input, Deref(heap, shallowResult.value), ShallowFields,
                ShallowRemoveFields)

\* 'hash:' and a digest after it
IsHashPrefixed(v) ==
  /\ v.t = "string"
  /\ Len(v.s) > 5
  /\ SubSeq(v.s, 1, 5) = <<"h", "a", "s", "h", ":">>

\* C7: at every key that matches the policy, at any nesting depth, the
\* output holds a hash-prefixed token or a removal marker, never the original
\* value. Stated of the recursive redactPII and of the one-level redactPII
\* of lib/index.js.
C7_NoOriginalAtMatchedKey ==
  /\ Redacted =>
       \A f \in Matched : (IsHashToken(f.out) \/ IsMarker(f.out)) /\ f.out # f.value
  /\ (RedactedShallow /\ ~shallowResult.threw) =>
       \A f \in MatchedShallow :
         (IsHashPrefixed(f.out) \/ IsMarker(f.out)) /\ f.out # f.value

\* C7 for the one-level redactPII alone, with the falsy values let through
\* that the traversal rule lets through: it fails as well, on a matched key
\* below the top level
C7_OneLevelNoTruthyOriginal ==
  (RedactedShallow /\ ~shallowResult.threw) =>
    \A f \in MatchedShallow :
      \/ (IsHashPrefixed(f.out) \/ IsMarker(f.out)) /\ f.out # f.value
      \/ ~Truthy(f.value) /\ f.out = f.value

\* the one-level redactPII, with its default fields, has returned
\* { note: { email: 'bob' } } as it was given
C7_NestedInClearSeen ==
  /\ RedactedShallow /\ ~shallowResult.threw
  /\ redactCall.fieldsToHash = Undefined
  /\ Input = Obj(<< <<k_note, Obj(<< <<k_email, Str(bob)>> >>)>> >>)
  /\ Deref(heap, shallowResult.value) = Input

\* what holds of the recursive redactPII (C7), for values that are not
\* themselves a token or a marker: the statement, except that a falsy value
\* (empty text, 0, false, null) at a key that matches hashFields and not
\* removeFields is passed through.
C7_NoTruthyOriginalAtMatchedKey ==
  Redacted =>
    \A f \in Matched :
      \/ (IsHashToken(f.out) \/ IsMarker(f.out)) /\ f.out # f.value
      \/ ~KeyMatches(RemoveFields, f.key) /\ ~Truthy(f.value) /\ f.out = f.value

\* a text under a matched key at depth 2, matched by substring and case
C7_Witness ==
  /\ Redacted
  /\ redactCall.fieldsToHash = Undefined
  /\ Input = Obj(<< <<k_note, Obj(<< <<k_userEmail, Str(bob)>> >>)>>,
                    <<k_password, Num(0)>> >>)
  /\ Output = Obj(<< <<k_note, Obj(<< <<k_userEmail, TokenOf(bob)>> >>)>>,
                     <<k_password, REDACTED>> >>)

\* C8: redactPII leaves its input as it was, and a second call with the same
\* input and policy returns the same output as the first.
C8_InputUnchangedSameOutput ==
  redactCall # NoCall =>
    /\ Deref(heap, redactCall.obj) = redactCall.before
    /\ \A i, j \in 1..Len(redactResults) :
         Deref(heap, redactResults[i]) = Deref(heap, redactResults[j])

\* two calls on an object of which a field was hashed
C8_Witness ==
  /\ redactCall # NoCall
  /\ Len(redactResults) = 2
  /\ Input = Obj(<< <<k_email, Str(bob)>>, <<k_password, Str(bob)>> >>)
  /\ Output # Input
  /\ redactResults[1] # redactCall.obj
  /\ redactResults[2] # redactResults[1]

\* C9: at a key that matches a removeFields and a hashFields matcher the
\* output is '[REDACTED]', whatever the value.
C9_RemovalWins ==
  Redacted =>
    \A f \in Matched :
      (KeyMatches(RemoveFields, f.key) /\ KeyMatches(HashFields, f.key))
      => f.out = REDACTED

\* an object under a key that matches 'email' and 'token'
C9_Witness ==
  /\ Redacted
  /\ redactCall.fieldsToRemove = Undefined
  /\ Input = Obj(<< <<k_email_token, Obj(<< <<k_note, Num(7)>> >>)>> >>)
  /\ Output = Obj(<< <<k_email_token, REDACTED>> >>)

\* the field is at a key that matches hashFields and not removeFields
HashOnly(f) ==
  f.out # Missing /\ KeyMatches(HashFields, f.key) /\ ~KeyMatches(RemoveFields, f.key)

\* C10 as stated: at a key that matches hashFields only, text becomes the
\* hash token, a truthy non-text becomes '[REDACTED_NON_STRING]', a falsy
\* value stays.
C10_HashFieldRule ==
  Redacted =>
    \A f \in Matched :
      HashOnly(f) =>
        /\ f.value.t = "string" => f.out = TokenOf(f.value.s)
        /\ (f.value.t # "string" /\ Truthy(f.value)) => f.out = REDACTED_NON_STRING
        /\ ~Truthy(f.value) => f.out = f.value

\* C10 amended: non-empty text becomes the hash token; the empty text is
\* falsy and stays.
C10_HashFieldRuleNonEmptyText ==
  Redacted =>
    \A f \in Matched :
      HashOnly(f) =>
        /\ (f.value.t = "string" /\ f.value.s # <<>>) => f.out = TokenOf(f.value.s)
        /\ (f.value.t # "string" /\ Truthy(f.value)) => f.out = REDACTED_NON_STRING
        /\ ~Truthy(f.value) => f.out = f.value

\* text and an array under keys that match 'email' by substring
C10_Witness ==
  /\ Redacted
  /\ redactCall.fieldsToHash = Undefined
  /\ Input = Obj(<< <<k_userEmail, Arr(<<Num(0)>>)>>, <<k_email, Str(bob)>> >>)
  /\ Output = Obj(<< <<k_userEmail, REDACTED_NON_STRING>>,
                     <<k_email, TokenOf(bob)>> >>)

\* `out` has the arrays and objects of `in`: every array its length, every
\* object its set of keys, and every value at a key that matches no matcher
\* and lies under no matched key is the value of `in`
RECURSIVE Isomorphic(_, _, _, _)
Isomorphic(in, out, hf, rf) ==
  CASE in.t = "array" ->
         /\ out.t = "array"
         /\ Len(out.a) = Len(in.a)
         /\ \A i \in 1..Len(in.a) : Isomorphic(in.a[i], out.a[i], hf, rf)
    [] in.t = "object" ->
         /\ out.t = "object"
         /\ {out.e[i][1] : i \in 1..Len(out.e)} = {in.e[i][1] : i \in 1..Len(in.e)}
         /\ \A i \in 1..Len(in.e) :
              \/ KeyMatches(rf, in.e[i][1])
              \/ KeyMatches(hf, in.e[i][1])
              \/ Isomorphic(in.e[i][2], GetKey(out, in.e[i][1]), hf, rf)
    [] OTHER -> out = in

\* the same for the one-level redactPII, whose matchers are the keys it is
\* given to hash and the keys it deletes
IsomorphicShallow(in, out) ==
  IF in.t # "object" THEN out = in
  ELSE /\ out.t = "object"
       /\ {out.e[i][1] : i \in 1..Len(out.e)} = {in.e[i][1] : i \in 1..Len(in.e)}
       /\ \A i \in 1..Len(in.e) :
            \/ \E j \in 1..Len(ShallowFields.a) : ShallowFields.a[j].s = in.e[i][1]
            \/ \E j \in 1..Len(RAW_FIELDS) : RAW_FIELDS[j] = in.e[i][1]
            \/ GetKey(out, in.e[i][1]) = in.e[i][2]

\* C11: the output of redactPII has the shape of its input: every object the
\* same set of keys, every array the same length and order, every value at
\* an unmatched key (under no matched key) unchanged. Stated of the
\* recursive redactPII and of the one-level redactPII of lib/index.js.
C11_OutputIsomorphic ==
  /\ Redacted => Isomorphic(Input, Output, HashFields, RemoveFields)
  /\ RedactedShallow =>
       /\ ~shallowResult.threw
       /\ IsomorphicShallow(Input, Deref(heap, shallowResult.value))

\* C11 for the recursive redactPII alone
C11_RecursiveIsomorphic ==
  Redacted => Isomorphic(Input, Output, HashFields, RemoveFields)

\* C11 for the recursive redactPII and the inputs without a '__proto__' key
C11_RecursiveIsomorphicPlainKeys ==
  (Redacted /\ Input \notin ProtoInputs)
  => Isomorphic(Input, Output, HashFields, RemoveFields)


(***************************************************************************)
(* Properties of the harness                                               *)
(***************************************************************************)

\* the places of the calls `ev` of trial n among the calls so far
Places(ev, n) == {k \in 1..Len(calls) : calls[k].ev = ev /\ calls[k].index = n}

\* C12: in every trial the write of the audit entry is issued and has
\* returned before the screening collaborator is invoked: every screening
\* call of a trial comes after the issue and the return of that trial's
\* audit write.
C12_AuditBeforeScreening ==
  \A k \in 1..Len(calls) :
    calls[k].ev \in ScreeningCalls =>
      \E a \in Places("audit issued", calls[k].index) :
        \E b \in Places("audit returned", calls[k].index) : a < b /\ b < k

\* the run is over, screening was called in two trials, once after an audit
\* write that failed
C12_Witness ==
  /\ pc = "exited"
  /\ \E k \in 1..Len(calls) : calls[k].ev \in ScreeningCalls /\ calls[k].index = 1
  /\ \E k \in 1..Len(calls) : calls[k].ev = "screening invoked" /\ calls[k].index = 2
  /\ \E n \in 1..Len(results) : results[n].audit_write = Bool(FALSE)

\* C13: whenever the screening collaborator is invoked for a trial, an
\* audit entry carrying that trial's correlation id has been recorded in the
\* audit store, also when store writes can fail.
C13_ScreeningHasAuditEntry ==
  \A k \in 1..Len(calls) :
    calls[k].ev \in ScreeningCalls =>
      \E e \in 1..Len(auditStore) :
        auditStore[e].correlation_id = calls[k].correlation_id

\* C13, when the audit write of the trial succeeded
C13_ScreeningHasAuditEntryIfWritten ==
  \A k \in 1..Len(calls) :
    /\ calls[k].ev \in ScreeningCalls
    /\ \/ \E n \in 1..Len(results) :
            results[n].index = calls[k].index /\ results[n].audit_write = Bool(TRUE)
       \/ trial # NoCall /\ trial.result.index = calls[k].index
                         /\ trial.result.audit_write = Bool(TRUE)
    => \E e \in 1..Len(auditStore) :
         auditStore[e].correlation_id = calls[k].correlation_id

\* the trials so far ran one after another: one result per finished trial,
\* in order, the trial in progress is the next one, and no call of a trial
\* comes after a call of a later trial
OneAfterAnother ==
  /\ \A n \in 1..Len(results) : results[n].index = n
  /\ Len(results) = (IF pc \in {"delay"} THEN loopIndex ELSE loopIndex - 1)
  /\ pc \in {"audit", "screening", "decision", "output"} =>
       trial.result.index = loopIndex
  /\ \A k \in 1..Len(calls) : \A l \in 1..Len(calls) :
       k < l => calls[k].index <= calls[l].index

\* the harness has exited with a summary of N trials and N results
ExitedWithSummary ==
  /\ pc = "exited"
  /\ exitCode \in {0, 1}
  /\ summary # NoCall
  /\ summary.total_tests = config.testCount
  /\ Len(results) = config.testCount

\* the awaits and statements between this state and the exit, when every
\* trial still to run takes all its steps
StepsLeft ==
  LET place == CASE pc = "loop"      -> 6
                 [] pc = "audit"     -> 5
                 [] pc = "screening" -> 4
                 [] pc = "decision"  -> 3
                 [] pc = "output"    -> 2
                 [] pc = "delay"     -> 1
                 [] pc = "exited"    -> 0
  IN  IF pc = "exited" THEN 0
      ELSE (config.testCount + 1 - loopIndex) * 6 + place

\* C14: for every trial count N and every pattern of failures runHarness
\* runs exactly N trials one after another, each to completion before the
\* next starts, collects one result per trial, and always writes a summary
\* with total_tests = N before it exits. Every step of the run brings the
\* exit nearer, whatever fails, and at the exit the N results and the
\* summary are there.
C14_AllTrialsThenSummary ==
  /\ [](OneAfterAnother /\ (pc = "exited" => ExitedWithSummary))
  /\ [][StepsLeft' < StepsLeft]_vars

\* a run of several trials has exited after an exception inside a trial, a
\* failed store write and a failed screening call
C14_Witness ==
  /\ ExitedWithSummary
  /\ config.testCount >= 2
  /\ \E n \in 1..Len(results) : results[n].correlation_id = Null
  /\ \E n \in 1..Len(results) :
       \E e \in 1..Len(results[n].errors) :
         results[n].errors[e][1] \in {"Audit write failed: ", "Screening failed: "}

\* every gate in summary.gates is true
EveryGate(sm) ==
  /\ sm.gates.audit_write_100
  /\ sm.gates.prompt_hash_match_100
  /\ sm.gates.signature_valid_100
  /\ sm.gates.error_rate_below_5

\* the three gates that summary.passed is computed from
EveryRequiredGate(sm) ==
  /\ sm.gates.audit_write_100
  /\ sm.gates.prompt_hash_match_100
  /\ sm.gates.signature_valid_100

\* C15: in every summary the harness produces, passed is true if and only
\* if every gate in summary.gates is true, and the process exits 0 if and
\* only if no gate failed.
C15_PassedIffEveryGate ==
  pc = "exited" =>
    /\ summary.passed <=> EveryGate(summary)
    /\ exitCode = 0 <=> EveryGate(summary)

\* C15 for the three gates audit_write_100, prompt_hash_match_100 and
\* signature_valid_100
C15_PassedIffEveryRequiredGate ==
  pc = "exited" =>
    /\ summary.passed <=> EveryRequiredGate(summary)
    /\ exitCode = 0 <=> EveryRequiredGate(summary)

\* the trials in which screening answered with a prompt hash other than the
\* one computed (or with none)
HashMismatches ==
  {calls[k].index : k \in {l \in 1..Len(calls) :
      /\ calls[l].ev = "screening returned"
      /\ calls[l].success
      /\ calls[l].prompt_hash #
           Str(NewTrialOf(calls[l].index, config.hmacKey.s).promptHash)}}

\* the trials whose signature verification returned false
BadSignatures ==
  {n \in 1..Len(results) : results[n].signature_valid = Bool(FALSE)}

\* C16: if in any trial the prompt hash echoed by screening differs from the
\* computed one, or signature verification returns false, then the boolean
\* of that trial is false, the summary has passed = false and the harness
\* exits non-zero. The summary of a run is also taken with the signature of
\* any one trial found invalid.
C16_IntegrityFailureFails ==
  /\ \A n \in HashMismatches :
       /\ n <= Len(results) => results[n].prompt_hash_match = Bool(FALSE)
       /\ pc = "exited" => ~summary.passed /\ exitCode # 0
  /\ BadSignatures # {} /\ pc = "exited" => ~summary.passed /\ exitCode # 0
  /\ pc = "exited" =>
       \A n \in 1..Len(results) :
         ~Summary([results EXCEPT ![n].signature_valid = Bool(FALSE)],
                  config.testCount).passed

\* a run has exited in which screening echoed another prompt hash in one
\* trial and every other check of every trial succeeded
C16_Witness ==
  /\ pc = "exited"
  /\ Cardinality(HashMismatches) = 1
  /\ Len(results) >= 2
  /\ summary.results.total_errors = 1
  /\ summary.gates.audit_write_100
  /\ summary.gates.signature_valid_100

\* the states of a trial, in their order
TrialStates == <<"GENERATED", "AUDIT_WRITTEN", "SIGNATURE_CHECKED", "SCREENED",
                 "DECISION_LOGGED", "OUTPUT_LOGGED">>

\* the field of the result that the step into each state sets
StateField == <<"correlation_id", "audit_write", "signature_valid",
                "prompt_hash_match", "decision_write", "agent_output_write">>

\* the states result r shows the trial to have passed through
StatesPassed(r) == {k \in 1..Len(StateField) : r[StateField[k]] # Null}

\* the trial passed through the states in their order, none left out
InOrder(r) == \E last \in 0..Len(StateField) : StatesPassed(r) = 1..last

HasError(r, what) == \E e \in 1..Len(r.errors) : r.errors[e][1] = what

\* the results of the trials that are DONE, and of the one in progress
Done == {results[n] : n \in 1..Len(results)}
InProgress == IF trial # NoCall /\ pc \in {"audit", "screening", "decision", "output"}
              THEN {trial.result} ELSE {}

\* C17 as stated: every trial passes through GENERATED, AUDIT_WRITTEN,
\* SIGNATURE_CHECKED, SCREENED, DECISION_LOGGED, OUTPUT_LOGGED in this order
\* before it is DONE, a failing step recording its error and the trial
\* going on with the next step.
C17_EveryStepThenDone ==
  \A r \in Done : StatesPassed(r) = 1..Len(StateField)

\* C17, amended: every trial passes through its states in the fixed order
\* and is DONE in the end; a store write that fails records its error and
\* the trial goes on with the next step; when the screening call fails, or
\* an exception is thrown, the error is recorded and the trial is DONE at
\* once, without the states SCREENED, DECISION_LOGGED and OUTPUT_LOGGED
\* (respectively without any state).
C17_StepsInOrderOrCutShort ==
  /\ \A r \in Done \cup InProgress :
       /\ InOrder(r)
       /\ r.audit_write = Bool(FALSE) =>
            HasError(r, "Audit write failed: ") /\ r.signature_valid # Null
       /\ r.decision_write \notin {Null, Bool(TRUE)} =>
            HasError(r, "Decision write failed: ")
       /\ r.agent_output_write \notin {Null, Bool(TRUE)} =>
            HasError(r, "Agent output write failed: ")
  /\ \A r \in Done :
       \/ StatesPassed(r) = 1..Len(StateField)
       \/ StatesPassed(r) = 1..3 /\ HasError(r, "Screening failed: ")
       \/ StatesPassed(r) = {} /\ HasError(r, "Unexpected error: ")
  /\ pc = "exited" => Len(results) = config.testCount

\* a run has exited with one trial cut short by a failed screening call and
\* one trial that went on after a failed decision write
C17_Witness ==
  /\ pc = "exited"
  /\ \E r \in Done : StatesPassed(r) = 1..3 /\ HasError(r, "Screening failed: ")
  /\ \E r \in Done : /\ StatesPassed(r) = 1..Len(StateField)
                      /\ HasError(r, "Decision write failed: ")
                      /\ r.agent_output_write = Bool(TRUE)

\* the calls made to a store: ev is "decision issued" or "output issued"
StoreCalls(ev) == {k \in 1..Len(calls) : calls[k].ev = ev}

\* the trials that came to the decision-log step, respectively went through
\* the agent-output step
CameToDecision == {r \in Done \cup InProgress : r.decision_write # Null}
CameToOutput == {r \in Done \cup InProgress : r.agent_output_write # Null}

\* C18: when the decision-log store or the agent-output store is not
\* configured, the corresponding write issues no store call, adds no error
\* to the trial, and the trial's decision_write (respectively
\* agent_output_write) is true; a missing optional store never makes a trial
\* or a gate fail: a run in which nothing else fails passes every gate.
C18_MissingStoreSkipped ==
  /\ ~Truthy(config.decisionDbId) =>
       /\ StoreCalls("decision issued") = {} /\ decisionStore = <<>>
       /\ \A r \in CameToDecision :
            r.decision_write = Bool(TRUE) /\ ~HasError(r, "Decision write failed: ")
  /\ ~Truthy(config.agentOutputsDbId) =>
       /\ StoreCalls("output issued") = {} /\ outputStore = <<>>
       /\ \A r \in CameToOutput :
            r.agent_output_write = Bool(TRUE)
            /\ ~HasError(r, "Agent output write failed: ")
  /\ pc = "exited" /\ faults = 0 /\ config.testCount > 0 =>
       /\ \A r \in Done : r.errors = <<>>
       /\ EveryGate(summary) /\ summary.passed /\ exitCode = 0

\* a run of two or more trials without either optional store has exited,
\* every trial having gone through its decision-log and agent-output steps
C18_Witness ==
  /\ pc = "exited"
  /\ ~Truthy(config.decisionDbId) /\ ~Truthy(config.agentOutputsDbId)
  /\ Len(results) >= 2
  /\ Done \subseteq CameToOutput
  /\ summary.results.decision_write_success = config.testCount
  /\ summary.passed

\* a run of three trials with the simulated responder and no failure has
\* exited
ThreeSimulatedTrials ==
  /\ pc = "exited"
  /\ config.testCount = 3
  /\ ~Truthy(config.screeningEndpoint)
  /\ faults = 0

\* C19: a run with trial count 3, the simulated screening responder and no
\* failing store call ends with a summary in which total_tests = 3,
\* signature_valid = 3, prompt_hash_match = 3 and passed = true, and exits 0.
C19_ThreeTrialsPass ==
  ThreeSimulatedTrials =>
    /\ summary.total_tests = 3
    /\ summary.results.signature_valid = 3
    /\ summary.results.prompt_hash_match = 3
    /\ summary.passed
    /\ exitCode = 0

\* such a run has exited, with both optional stores written to
C19_Witness ==
  /\ ThreeSimulatedTrials
  /\ Len(auditStore) = 3 /\ Len(decisionStore) = 3 /\ Len(outputStore) = 3
  /\ \E k \in 1..Len(calls) : calls[k].ev = "screening simulated" /\ calls[k].index = 3

(***************************************************************************)
(* Properties of the gate evaluator                                        *)
(***************************************************************************)

\* the gate evaluator was run on a summary with total = 10,
\* auditWriteSuccess = 10, promptHashMatches = 9, signatureVerified = 10,
\* schemaErrors = 0 and successCount = 10
NineOfTen ==
  /\ gatePc = "exited"
  /\ summaryFile.state = "JSON"
  /\ summaryFile.data.summary =
       [total |-> Num(10), auditWriteSuccess |-> Num(10),
        promptHashMatches |-> Num(9), signatureVerified |-> Num(10),
        schemaErrors |-> Num(0), successCount |-> Num(10)]

\* C20: with default thresholds, for a summary with total = 10,
\* auditWriteSuccess = 10, promptHashMatches = 9, signatureVerified = 10,
\* schemaErrors = 0 and successCount = 10, the gate evaluator reports the
\* 'Prompt Hash Match' gate as failed, every other gate as passed, and the
\* overall verdict as not passed (exit 1).
C20_PromptHashGateFails ==
  NineOfTen =>
    /\ ~gateResult.threw
    /\ Len(gateResult.value.gates) = 5
    /\ \A g \in 1..Len(gateResult.value.gates) :
         gateResult.value.gates[g].pass
           <=> gateResult.value.gates[g].name # "Prompt Hash Match"
    /\ \E g \in 1..Len(gateResult.value.gates) :
         gateResult.value.gates[g].name = "Prompt Hash Match"
    /\ ~gateResult.value.allPassed
    /\ gateExit = 1

\* the gate evaluator has exited after checking that summary
C20_Witness ==
  /\ NineOfTen
  /\ gateResult # NoCall
  /\ gateExit # -1

\* the summary that was read, its total and the count each gate reads
\* (a count that is missing is 0; the audit-write gate reads successCount
\* when auditWriteSuccess is missing)
Read == summaryFile.data.summary
TotalRead ==
  IF Truthy(Read.total) THEN Read.total.n
  ELSE IF Truthy(summaryFile.data.results) THEN summaryFile.data.results.n
  ELSE 0
CountRead(member) == IF Read[member] = Undefined THEN 0 ELSE Read[member].n
AuditWriteRead ==
  IF Read.auditWriteSuccess # Undefined THEN Read.auditWriteSuccess.n
  ELSE CountRead("successCount")

\* checkGates was called on a summary with total > 0 and has returned
Evaluated ==
  /\ gatePc = "exited"
  /\ summaryFile.state = "JSON"
  /\ Read # Undefined
  /\ TotalRead > 0

\* C21: for every summary with total > 0, checkGates returns true if and
\* only if all five gates pass, where each gate compares count/total with
\* its threshold: >= 100% for audit-write success, prompt-hash match and
\* signature verified, >= 98% for the overall success rate, and <= 0% for
\* the schema-error rate.
C21_AllGatesIffVerdict ==
  Evaluated =>
    /\ ~gateResult.threw
    /\ gateResult.value.allPassed <=>
         /\ AuditWriteRead >= TotalRead
         /\ CountRead("promptHashMatches") >= TotalRead
         /\ CountRead("signatureVerified") >= TotalRead
         /\ CountRead("schemaErrors") <= 0
         /\ CountRead("successCount") * 100 >= 98 * TotalRead
    /\ gateResult.value.allPassed <=>
         \A g \in 1..Len(gateResult.value.gates) : gateResult.value.gates[g].pass

\* checkGates has returned true for a summary of 50 trials of which 49
\* succeeded (98%), the other counts at 100% and no schema error
C21_Witness ==
  /\ Evaluated
  /\ TotalRead = 50
  /\ CountRead("successCount") = 49
  /\ gateResult.value.allPassed
  /\ gateExit = 0

\* the gates could not be evaluated: the summary artifact is missing, is
\* not JSON, has no summary member, or reports zero total trials
Malformed == summaryFile.state = "JSON" /\ Read = Undefined
ZeroTotal == summaryFile.state = "JSON" /\ Read # Undefined /\ TotalRead = 0
CouldNotEvaluate == summaryFile.state # "JSON" \/ Malformed \/ ZeroTotal

\* C22: the gate evaluator exits 0 exactly when all gates pass, exits 1
\* exactly when the gates were evaluated and at least one failed, and
\* signals every 'could not evaluate' condition (artifact missing,
\* unparseable or malformed, or zero total trials) with a non-zero exit
\* other than the gate-failure exit.
C22_ExitCodes ==
  gatePc = "exited" =>
    /\ gateExit = 0 <=> ~CouldNotEvaluate /\ gateResult.value.allPassed
    /\ gateExit = 1 <=> ~CouldNotEvaluate /\ ~gateResult.value.allPassed
    /\ CouldNotEvaluate => gateExit \notin {0, 1}

\* C22 with zero total trials counted among the gate failures
C22_ExitCodesZeroTotalAsFailure ==
  gatePc = "exited" =>
    /\ gateExit = 0 <=> ~CouldNotEvaluate /\ gateResult.value.allPassed
    /\ gateExit = 1 <=> ZeroTotal \/ (~CouldNotEvaluate /\ ~gateResult.value.allPassed)
    /\ summaryFile.state # "JSON" \/ Malformed => gateExit = 2

\* C23: the gate evaluator, run on the summary artifact that a harness run
\* wrote, evaluates its gates from that artifact's total trial count and raw
\* counts and reaches the same verdict as the harness: exit 0 when the
\* harness reported passed = true, exit 1 when it reported passed = false.
C23_SameVerdictAsHarness ==
  pc = "exited" /\ gatePc = "exited" =>
    /\ ~gateResult.threw
    /\ gateExit = (IF summary.passed THEN 0 ELSE 1)

\* what the gate evaluator does with every artifact of the harness: the
\* read of summary.total throws and it exits 2
C23_CannotEvaluateHarnessArtifact ==
  pc = "exited" /\ gatePc = "exited" => gateResult.threw /\ gateExit = 2

\* C24: running the gate evaluator any number of times against an
\* unchanged summary artifact with unchanged thresholds always gives the
\* same verdict and exit code, and a run never modifies the artifact.
C24_SameVerdictEveryRun ==
  /\ [](\A i \in 1..Len(gateRuns) : \A j \in 1..Len(gateRuns) :
          gateRuns[i] = gateRuns[j])
  /\ [][summaryFile' = summaryFile]_vars

\* the gate evaluator has run to its exit several times on a summary of
\* which a gate fails
C24_Witness ==
  /\ Len(gateRuns) >= 3
  /\ gatePc = "exited"
  /\ gateExit = 1
  /\ TotalRead > 0

(***************************************************************************)
(* Properties of the bridge                                                *)
(***************************************************************************)

\* the page processCommands has in hand, between its first update and the
\* return of its last one
InHand(page) ==
  /\ bridgePc \in {"triggering", "finishing"}
  /\ Head(commands) = page

\* the calls of updateCommandStatus for the page, as logged
UpdatesOf(page) ==
  {i \in 1..Len(bridgeLog) : bridgeLog[i].ev = "update" /\ bridgeLog[i].page = page}

\* the steps of the Status Flow
StatusFlow ==
  {<<"none", "Deploy">>, <<"Deploy", "Processing">>,
   <<"Processing", "Completed">>, <<"Processing", "Failed">>}

StatusFlowStep ==
  \A page \in Pages :
    commandStatus'[page] # commandStatus[page]
      => <<commandStatus[page], commandStatus'[page]>> \in StatusFlow

\* C25: every row the bridge picked up goes from Deploy to Processing and
\* from there to one of Completed and Failed, and once processCommands is
\* through with it, it is in neither Deploy nor Processing
C25_ProcessingThenCompletedOrFailed ==
  /\ [][StatusFlowStep]_vars
  /\ [](\A page \in processedCommands :
          ~InHand(page) => commandStatus[page] \in {"Completed", "Failed"})

\* what holds of the code instead: that, for the rows whose store updates
\* all succeeded; a row whose last update failed stays as it was, and is
\* not taken up again
C25_CompletedOrFailedIfUpdatesSucceed ==
  \A page \in processedCommands :
    ~InHand(page) =>
      /\ (\A i \in UpdatesOf(page) : bridgeLog[i].ok)
           => commandStatus[page] \in {"Completed", "Failed"}
      /\ commandStatus[page] \in {"Deploy", "Processing", "Completed", "Failed"}

\* a row left in Processing after its last update failed, all polled over
C25_StuckSeen ==
  /\ bridgePc = "sleep"
  /\ \E page \in processedCommands : commandStatus[page] = "Processing"

\* the calls of the webhook, as logged
WebhookCalls ==
  {i \in 1..Len(bridgeLog) : bridgeLog[i].ev = "webhook called"}

\* C26: whenever the webhook is called for a command, the stored status of
\* the command is Processing, never Deploy
C26_WebhookOnlyWhenProcessing ==
  \A i \in WebhookCalls : bridgeLog[i].stored = "Processing"

\* what holds of the code instead: the webhook is called after the update
\* to Processing was attempted, and the stored status is Processing exactly
\* if that update succeeded
C26_WebhookAfterAttemptedUpdate ==
  \A i \in WebhookCalls :
    /\ i > 1
    /\ bridgeLog[i - 1].ev = "update"
    /\ bridgeLog[i - 1].page = bridgeLog[i].page
    /\ bridgeLog[i - 1].newStatus = "Processing"
    /\ bridgeLog[i].stored = "Processing" <=> bridgeLog[i - 1].ok

\* the last updates of processCommands, as logged
FinalUpdates ==
  {i \in 1..Len(bridgeLog) :
     bridgeLog[i].ev = "update" /\ bridgeLog[i].newStatus # "Processing"}

Is2xx(response) == response \in {"200", "200 no JSON"}

\* C27: the final status written is Completed exactly when the webhook call
\* returned a 2xx response, and Failed with the error text in Notes exactly
\* when it returned another response or threw
C27_CompletedIff2xx ==
  \A i \in FinalUpdates :
    /\ i > 1
    /\ bridgeLog[i - 1].ev = "webhook returned"
    /\ bridgeLog[i - 1].page = bridgeLog[i].page
    /\ bridgeLog[i].newStatus \in {"Completed", "Failed"}
    /\ bridgeLog[i].newStatus = "Completed" <=> Is2xx(bridgeLog[i - 1].response)
    /\ bridgeLog[i].newStatus = "Failed"
         => /\ Len(bridgeLog[i].notes) = 2
            /\ bridgeLog[i].notes[1] = "Error: "
            /\ bridgeLog[i].notes[2] \in {"HTTP 500: Internal Server Error", "fetch failed"}
    /\ bridgeLog[i].ok =>
         \/ commandStatus[bridgeLog[i].page] = bridgeLog[i].newStatus
         \/ \E j \in UpdatesOf(bridgeLog[i].page) : j > i

\* one command was marked Failed after a failed trigger and another
\* Completed after a 2xx response without a JSON body
C27_Witness ==
  \E i, j \in FinalUpdates :
    /\ bridgeLog[i].newStatus = "Failed" /\ bridgeLog[i].ok
    /\ commandNotes[bridgeLog[i].page] = <<"Error: ", "fetch failed">>
    /\ bridgeLog[j].newStatus = "Completed"
    /\ bridgeLog[j - 1].response = "200 no JSON"

(***************************************************************************)
(* Properties of createAuditSummary                                        *)
(***************************************************************************)

Summarized == libCall # NoCall /\ "maxLength" \in DOMAIN libCall /\ libResult # NoCall

\* the maxLength of the call, 500 if omitted
GivenMaxLength == DefaultTo(libCall.maxLength, Num(500)).n

\* the compact serialization of the redacted value, by the redactPII of
\* lib/redactPII.js
RedactedJson ==
  LET made == Allocate(<<>>, libCall.obj)
      redacted == redactPII(made.h, made.v, Undefined, Undefined)
  IN  JSONstringify(Deref(redacted.h, redacted.v), NoReplacer)

\* the result is the serialization if that fits, else its first
\* maxLength - 3 characters and '...', and has at most maxLength characters
CutTo(result, json, maxLength) ==
  /\ ~result.threw
  /\ result.value.t = "string"
  /\ Len(result.value.s) <= maxLength
  /\ Len(json) <= maxLength => result.value.s = json
  /\ Len(json) > maxLength =>
       /\ Len(result.value.s) = maxLength
       /\ \A i \in 1..(maxLength - 3) : result.value.s[i] = json[i]
       /\ \A i \in (maxLength - 2)..maxLength : result.value.s[i] = "."

\* C28: createAuditSummary never throws and returns at most maxLength
\* characters: the serialization of the redacted value if it fits, else its
\* first maxLength - 3 characters followed by '...'
C28_NeverThrowsAtMostMaxLength ==
  Summarized =>
    /\ ~libResult.r.threw
    /\ libResult.by = "lib/redactPII.js" => CutTo(libResult.r, RedactedJson, GivenMaxLength)
    /\ Len(libResult.r.value.s) <= GivenMaxLength

\* what holds of the code instead: that, for a maxLength of 3 or more and
\* the createAuditSummary of lib/redactPII.js; for a smaller maxLength a
\* serialization that does not fit is returned as '...'; the
\* createAuditSummary of lib/index.js throws for null
C28_AtMostMaxLengthFromThree ==
  Summarized =>
    /\ libResult.by = "lib/redactPII.js" =>
         IF GivenMaxLength >= 3 \/ Len(RedactedJson) <= GivenMaxLength
         THEN CutTo(libResult.r, RedactedJson, GivenMaxLength)
         ELSE libResult.r = Returned(Str(<<".", ".", ".">>))
    /\ libResult.by = "lib/index.js" =>
         /\ libResult.r.threw <=> libCall.obj = Null
         /\ ~libResult.r.threw /\ GivenMaxLength >= 3
              => Len(libResult.r.value.s) <= GivenMaxLength

\* '...' was returned for a maxLength below 3
C28_EllipsisSeen ==
  /\ Summarized
  /\ libResult.by = "lib/redactPII.js"
  /\ GivenMaxLength < 3
  /\ libResult.r = Returned(Str(<<".", ".", ".">>))

(***************************************************************************)
(* Properties of createSignedAudit                                         *)
(***************************************************************************)

SignedAuditCalled ==
  libCall # NoCall /\ "auditData" \in DOMAIN libCall /\ libResult # NoCall

\* the keys of the entries
KeysOf(entries) == {entries[i][1] : i \in 1..Len(entries)}

\* the fields of the auditData of the call
FieldsOfData == SpreadOf(libCall.auditData)

\* the record returned has the field of auditData at the key, with the
\* value it has in auditData
Carries(key) ==
  \E i \in 1..Len(FieldsOfData) :
    /\ FieldsOfData[i][1] = key
    /\ HasKey(libResult.r.value, key)
    /\ GetKey(libResult.r.value, key) = FieldsOfData[i][2]

\* the record returned has signature = signAudit(auditData, hmacKey) and
\* signed_at = the instant of the call, and no field beyond these and those
\* of auditData; auditData is as before
SignatureAdded ==
  /\ libResult.r.value.t = "object"
  /\ libResult.r.value # libCall.auditData
  /\ HasKey(libResult.r.value, k_signature)
  /\ Returned(GetKey(libResult.r.value, k_signature))
       = signAudit(libCall.auditData, libCall.hmacKey, env)
  /\ HasKey(libResult.r.value, k_signed_at)
  /\ GetKey(libResult.r.value, k_signed_at) = Str(libResult.now)
  /\ KeysOf(libResult.r.value.e) = KeysOf(FieldsOfData) \cup {k_signature, k_signed_at}
  /\ Len(libResult.r.value.e) = Cardinality(KeysOf(libResult.r.value.e))
  /\ libResult.data = libCall.auditData

\* C29 as stated: the record returned carries every field of data with its
\* original value, plus signature = signAudit(data, key) and signed_at, and
\* data is unchanged
C29_CarriesEveryField ==
  SignedAuditCalled /\ ~libResult.r.threw =>
    /\ SignatureAdded
    /\ \A key \in KeysOf(FieldsOfData) : Carries(key)

\* C29: the record returned carries every field of data other than
\* signature and signed_at with its original value, and signature =
\* signAudit(data, key) and signed_at = the instant of signing in place of
\* any such fields of data; data is unchanged, also when signAudit throws,
\* which createSignedAudit then throws too
C29_CarriesFieldsButSignature ==
  SignedAuditCalled =>
    /\ libResult.data = libCall.auditData
    /\ libResult.r.threw
         <=> signAudit(libCall.auditData, libCall.hmacKey, env).threw
    /\ ~libResult.r.threw =>
         /\ SignatureAdded
         /\ \A key \in KeysOf(FieldsOfData) \ {k_signature, k_signed_at} : Carries(key)

\* an entry that has a signature field was signed, and the record returned
\* has the new signature in its place
C29_Witness ==
  /\ SignedAuditCalled
  /\ ~libResult.r.threw
  /\ libCall.auditData.t = "object"
  /\ HasKey(libCall.auditData, k_signature)
  /\ Carries(a_)
  /\ GetKey(libResult.r.value, k_signature) # GetKey(libCall.auditData, k_signature)

(***************************************************************************)
(* Properties of resolveEntityPageId                                       *)
(***************************************************************************)

Resolved ==
  libCall # NoCall /\ "correlationId" \in DOMAIN libCall /\ libResult # NoCall

\* the rows of the Entities database with the correlation id of the call
Matches ==
  {i \in 1..Len(libCall.entities) :
     Str(libCall.entities[i].correlation) = libCall.correlationId}

\* the value returned is the id of the first matching row, null if there
\* is none
FirstMatchOrNull ==
  /\ ~libResult.r.threw
  /\ Matches = {} => libResult.r.value = Null
  /\ Matches # {} =>
       \E i \in Matches :
         /\ \A j \in Matches : i <= j
         /\ libResult.r.value = Str(libCall.entities[i].id)

\* C30: resolveEntityPageId returns the id of the first row matching the
\* correlation id, null if no row matches, and null, never an error, if
\* the store query fails
C30_FirstMatchNullOnFailure ==
  Resolved =>
    IF libResult.ok THEN FirstMatchOrNull
    ELSE libResult.r = Returned(Null)

\* what holds of the code instead: that, for the function of
\* lib/resolveEntityPageId.js; the variant without catch returns as
\* claimed if the query succeeds, and if it fails throws the error of the
\* query unless the correlation id is falsy, for which it makes no query
C30_NullOnFailureWhereCaught ==
  Resolved =>
    /\ libResult.ok => FirstMatchOrNull
    /\ ~libResult.ok /\ libResult.by = "lib/resolveEntityPageId.js"
         => libResult.r = Returned(Null)
    /\ ~libResult.ok /\ libResult.by = "module-level client"
         => IF Truthy(libCall.correlationId) THEN libResult.r.threw
            ELSE libResult.r = Returned(Null)

\* the second of two matching rows was passed over for the first, by both
\* functions' code path
C30_FirstOfTwoSeen ==
  /\ Resolved
  /\ libResult.ok
  /\ Cardinality(Matches) >= 2
  /\ 1 \notin Matches
  /\ ~libResult.r.threw
  /\ libResult.r.value = Str(<<"p", "2">>)

(***************************************************************************)
(* Properties of resolveEntityPageIds                                      *)
(***************************************************************************)

BatchCalled ==
  libCall # NoCall /\ "correlationIds" \in DOMAIN libCall /\ libResult # NoCall

BatchDone == BatchCalled /\ libResult.at = "done"

\* the lookups that have settled, and those that returned a page id
Settled == {k \in 1..Len(libResult.log) : libResult.log[k].ev = "settled"}
Found ==
  {k \in Settled : ~libResult.log[k].r.threw /\ Truthy(libResult.log[k].r.value)}

\* the entries of the Map are the ids whose lookup returned a page id, each
\* once, with the page id its last lookup returned
MapOfFound(entries) ==
  /\ {e[1] : e \in {entries[i] : i \in 1..Len(entries)}}
       = {libCall.correlationIds[libResult.log[k].i] : k \in Found}
  /\ \A i, j \in 1..Len(entries) : entries[i][1] = entries[j][1] => i = j
  /\ \A i \in 1..Len(entries) :
       \E k \in Found :
         /\ libCall.correlationIds[libResult.log[k].i] = entries[i][1]
         /\ libResult.log[k].r.value = entries[i][2]
         /\ \A l \in Found :
              libCall.correlationIds[libResult.log[l].i] = entries[i][1] => l <= k

\* the lookups are called in input order, each after the one before settled
OneLookupAtATime ==
  \A k \in 1..Len(libResult.log) :
    /\ libResult.log[k].ev = (IF k % 2 = 1 THEN "called" ELSE "settled")
    /\ libResult.log[k].i = (k + 1) \div 2

\* C31: resolveEntityPageIds returns the mapping of the ids whose lookup
\* returned a page id; a miss or a failed lookup is left out and the
\* lookups after it are made all the same; the lookups are made one at a
\* time in input order
C31_MapOfFoundAllLookedUp ==
  BatchCalled =>
    /\ OneLookupAtATime
    /\ BatchDone =>
         /\ ~libResult.r.threw
         /\ Cardinality(Settled) = Len(libCall.correlationIds)
         /\ MapOfFound(libResult.r.value.a)

\* what holds of the code instead: that, for the resolveEntityPageIds of
\* lib/resolveEntityPageId.js; the variant whose resolveEntityPageId does
\* not catch rejects at the first failed lookup and makes none after it
C31_MapOfFoundWhereCaught ==
  BatchCalled =>
    /\ OneLookupAtATime
    /\ BatchDone /\ ~libResult.r.threw =>
         /\ Cardinality(Settled) = Len(libCall.correlationIds)
         /\ MapOfFound(libResult.r.value.a)
    /\ BatchDone /\ libResult.r.threw =>
         /\ libResult.by = "module-level client"
         /\ libResult.log[Len(libResult.log)].r.threw
    /\ BatchDone /\ libResult.by = "lib/resolveEntityPageId.js" => ~libResult.r.threw

\* the first of two lookups failed and the second was never made
C31_StoppedSeen ==
  /\ BatchDone
  /\ libResult.r.threw
  /\ Len(libCall.correlationIds) = 2
  /\ Cardinality(Settled) = 1

\* with the lookups caught, the first of two failed, the second was made
\* and found its page
C31_WentOnSeen ==
  /\ BatchDone
  /\ libResult.by = "lib/resolveEntityPageId.js"
  /\ Cardinality(Settled) = 2
  /\ Cardinality(Found) = 1
  /\ 4 \in Found
  /\ Len(libResult.r.value.a) = 1

(***************************************************************************)
(* Properties of the polling                                               *)
(***************************************************************************)

\* the executions of poll() in progress
Running == {e \in DOMAIN executions : executions[e].pc # "free"}

\* C32: the webhook is called at most once for a page id, however often
\* the queries return the row
C32_OneWebhookCallPerPage ==
  \A i, j \in WebhookCalls :
    bridgeLog[i].page = bridgeLog[j].page => i = j

\* a row whose webhook was called is in Deploy again (its update to
\* Processing failed, or the user set it back), a later query has returned
\* it, and it is next in the loop, with one call of the webhook logged
C32_Witness ==
  \E e \in Running :
    /\ executions[e].pc = "loop"
    /\ executions[e].commands # <<>>
    /\ commandStatus[Head(executions[e].commands)] = "Deploy"
    /\ Head(executions[e].commands) \in processedCommands
    /\ \E i \in WebhookCalls : bridgeLog[i].page = Head(executions[e].commands)
    /\ \E i \in FinalUpdates : bridgeLog[i].page = Head(executions[e].commands)

\* C36: at most one execution of processCommands is in progress, and a
\* timer for the next poll is set only while none is
C36_OnePollAtATime ==
  /\ bridgePc = "executions" =>
       /\ Cardinality(Running) <= 1
       /\ timers \in {0, 1}
       /\ timers = 1 <=> Running = {}

\* a second poll is in progress, after a first one that called the webhook
\* and ended
C36_Witness ==
  /\ Cardinality(Running) = 1
  /\ timers = 0
  /\ \E e \in Running : executions[e].pc = "marking"
  /\ \E i \in FinalUpdates : bridgeLog[i].ok

\* C37: whatever fails in a poll, the next poll is scheduled: there is
\* never neither a poll in progress nor a timer set, and every poll in
\* progress leads to a timer set
C37_NextPollScheduled ==
  /\ [](bridgePc = "executions" /\ Running = {} => timers > 0)
  /\ [](bridgePc = "executions" /\ timers = 0 => <>(timers > 0))

\* the next poll is scheduled after a poll in which the webhook call and
\* the update to Failed both failed
C37_Witness ==
  /\ bridgePc = "executions"
  /\ timers = 1
  /\ Len(bridgeLog) >= 2
  /\ bridgeLog[Len(bridgeLog)].ev = "update"
  /\ ~bridgeLog[Len(bridgeLog)].ok
  /\ bridgeLog[Len(bridgeLog) - 1].ev = "webhook returned"
  /\ bridgeLog[Len(bridgeLog) - 1].response = "fetch failed"

(***************************************************************************)
(* Properties of the harness: the steps after screening                    *)
(***************************************************************************)

\* screening returned success in trial n
ScreeningSucceeded(n) ==
  \E k \in Places("screening returned", n) : calls[k].success

\* the records of a store with the correlation id of the result
RecordsOf(store, r) ==
  {k \in 1..Len(store) : Str(store[k].correlation_id) = r.correlation_id}

ScreeningFailures(r) ==
  {e \in 1..Len(r.errors) : r.errors[e][1] = "Screening failed: "}

\* C33: in a trial that has returned, the decision-log write and the
\* agent-output write were both attempted (the step taken, and the write
\* issued if the store is configured) if screening returned success,
\* whatever the decision-log write returned; otherwise neither was, no
\* record is in either store, decision_write, agent_output_write and
\* prompt_hash_match are null, and a failed screening has left one
\* 'Screening failed' error
C33_WritesIffScreeningSucceeded ==
  \A n \in 1..Len(results) :
    LET r == results[n]
    IN  IF ScreeningSucceeded(r.index)
        THEN /\ r.decision_write # Null
             /\ r.agent_output_write # Null
             /\ Truthy(config.decisionDbId) => Places("decision issued", r.index) # {}
             /\ Truthy(config.agentOutputsDbId) => Places("output issued", r.index) # {}
             /\ ScreeningFailures(r) = {}
        ELSE /\ r.decision_write = Null
             /\ r.agent_output_write = Null
             /\ r.prompt_hash_match = Null
             /\ Places("decision issued", r.index) = {}
             /\ Places("output issued", r.index) = {}
             /\ RecordsOf(decisionStore, r) = {}
             /\ RecordsOf(outputStore, r) = {}
             /\ Places("screening returned", r.index) # {}
                  => Cardinality(ScreeningFailures(r)) = 1

\* one trial's decision-log write failed and its agent-output write was
\* issued and succeeded; another trial's screening failed
C33_Witness ==
  \E n, m \in 1..Len(results) :
    /\ HasError(results[n], "Decision write failed: ")
    /\ Places("output issued", results[n].index) # {}
    /\ RecordsOf(outputStore, results[n]) # {}
    /\ Places("screening returned", results[m].index) # {}
    /\ ~ScreeningSucceeded(results[m].index)
    /\ results[m].audit_write = Bool(TRUE)

(***************************************************************************)
(* Properties of the harness: its signer and the library's                 *)
(***************************************************************************)

\* a trial has signed its audit summary
TrialSigned == pc # "idle" /\ trial # NoCall

\* C34: the signature the harness computes for its audit payload is the
\* one signAudit of the library computes for the payload and key, and
\* verifySignature of the library accepts it
C34_HarnessSignsAsLibrary ==
  TrialSigned =>
    /\ Returned(trial.signature) = signAudit(trial.auditSummary, config.hmacKey, NoEnv)
    /\ verifySignature(trial.auditSummary, trial.signature, config.hmacKey, NoEnv)
         = Returned(Bool(TRUE))

\* what holds of the code instead: the harness signs JSON.stringify of the
\* payload, keys in insertion order, and the library the serialization
\* with the sorted top-level keys as replacer; the two differ for the
\* audit summary of every trial, the signatures with them, and the library
\* rejects the signature of the harness, which the harness itself accepts
C34_LibraryRejectsHarnessSignature ==
  TrialSigned =>
    /\ PlainPayload(trial.auditSummary) # CanonicalPayload(trial.auditSummary)
    /\ trial.signature = Str(harnessSignAudit(trial.auditSummary, config.hmacKey.s))
    /\ Returned(trial.signature) # signAudit(trial.auditSummary, config.hmacKey, NoEnv)
    /\ verifySignature(trial.auditSummary, trial.signature, config.hmacKey, NoEnv)
         = Returned(Bool(FALSE))
    /\ harnessVerifySignature(trial.auditSummary, trial.signature, config.hmacKey.s)

(***************************************************************************)
(* Properties of the harness: the verdict                                  *)
(***************************************************************************)

\* every trial had a successful audit write, a matching prompt hash and a
\* valid signature
EveryTrialSound ==
  \A n \in 1..Len(results) :
    /\ results[n].audit_write = Bool(TRUE)
    /\ results[n].prompt_hash_match = Bool(TRUE)
    /\ results[n].signature_valid = Bool(TRUE)

\* each success count of summary.results is between 0 and total_tests
CountsWithinTotal ==
  \A field \in {"audit_write_success", "prompt_hash_match", "decision_write_success",
                "agent_output_success", "signature_valid"} :
    summary.results[field] \in 0..summary.total_tests

\* C35: the harness reports passed = true, and exits 0, only if at least
\* one trial ran and every trial had a successful audit write, a matching
\* prompt hash and a valid signature; the success counts are within
\* 0..total_tests
C35_PassedOnlyIfTrialsRanSound ==
  pc = "exited" =>
    /\ CountsWithinTotal
    /\ exitCode = 0 <=> summary.passed
    /\ summary.passed => Len(results) >= 1 /\ EveryTrialSound

\* what holds of the code instead: passed = true only if every trial that
\* ran was sound and as many ran as configured, which TEST_COUNT = 0 meets
\* with no trial
C35_PassedOnlyIfEveryTrialSound ==
  pc = "exited" =>
    /\ CountsWithinTotal
    /\ exitCode = 0 <=> summary.passed
    /\ summary.passed => Len(results) = config.testCount /\ EveryTrialSound
    /\ config.testCount = 0 => summary.passed /\ results = <<>>

\* a run of no trial has passed
C35_NoTrialPassedSeen ==
  pc = "exited" /\ results = <<>> /\ summary.passed /\ exitCode = 0
=========================================================================
